---- MODULE Spec2Model ----
(***************************************************************************)
(* Model of the subcaucus calculator's Snapshot (Snapshot.ts): the inputs  *)
(* of a snapshot (allowed, seed, the ordered map of subcaucuses), the      *)
(* aggregate fields redistributeDelegates writes, and the operations that  *)
(* change a snapshot.  The fields the computation never reads (created,   *)
(* device, revised, name) are left out.                                    *)
(*                                                                         *)
(* Numbers.  The source computes participantsPerDelegate, delegateDivisor  *)
(* and every remainder in IEEE doubles, and so does the model: a number is *)
(* the 53-bit significand and the exponent of the double, a division is    *)
(* long division rounded to the nearest double.  Whole numbers (counts,    *)
(* delegates) are integers.                                                *)
(*                                                                         *)
(* Storage.  The second part models SubCalcStorage (SubCalcStorage.ts):    *)
(* the meetings map, the current meeting key, localStorage, and the        *)
(* subcaucus maps as objects that snapshots refer to.                      *)
(***************************************************************************)
EXTENDS Integers, Sequences, FiniteSets, TLC

\* ------------------------------------------------------------------ bounds
MaxSubs == 3        \* most subcaucuses in a snapshot, and the largest id
MaxCount == 3       \* largest member count typed into a row
MaxAllowed == 3     \* largest number of delegates allowed
MaxSeed == 2        \* seeds are 0..MaxSeed
MaxSeats == 5       \* most delegates allowed where ties are looked at

Ids == 1..MaxSubs
Counts == 0..MaxCount
Alloweds == 0..MaxAllowed
Seeds == 0..MaxSeed

\* larger snapshots: WideSubs subcaucuses with counts among the debugging
\* data of the application (10, 0, 100, 1), electing 10 or 11 delegates
WideSubs == 5
WideCounts == {0, 1, 10, 100}
WideSeats == {10, 11}

\* ----------------------------------------------------- numbers (IEEE doubles)
\* A JavaScript number that is not a whole number small enough to be kept as
\* an integer is kept as the double it is: zero, or sig * 2^(-scale) with a
\* 53-bit significand sig = hi * 2^27 + lo (2^52 <= sig < 2^53).  Division
\* rounds to the nearest double, ties to the even significand.
Half == 134217728        \* 2^27, the weight of hi in a significand
Top == 33554432          \* 2^25: hi >= Top exactly when sig >= 2^52

Pow2 == [k \in 0..27 |-> IF k = 0 THEN 1 ELSE 2 ^ k]

NumZero == [hi |-> 0, lo |-> 0, scale |-> 0]

\* the `remainder = -1` the remainder walk starts from
NumMinusOne == [hi |-> -1, lo |-> 0, scale |-> 0]

SigGeq(a, b) == a.hi > b.hi \/ (a.hi = b.hi /\ a.lo >= b.lo)

\* 2 * a + bit
SigTwice(a, bit) ==
    LET low == 2 * a.lo + bit
    IN  [hi |-> 2 * a.hi + low \div Half, lo |-> low % Half]

\* a - b for a >= b
SigMinus(a, b) ==
    IF a.lo >= b.lo THEN [hi |-> a.hi - b.hi, lo |-> a.lo - b.lo]
    ELSE [hi |-> a.hi - b.hi - 1, lo |-> a.lo + Half - b.lo]

\* the number of bits of a whole number n > 0
RECURSIVE BitLength(_)
BitLength(n) == IF n = 0 THEN 0 ELSE 1 + BitLength(n \div 2)

\* the double of a whole number 0 <= n < 2^26
NumOfInt(n) ==
    IF n = 0 THEN NumZero
    ELSE [hi |-> n * Pow2[26 - BitLength(n)], lo |-> 0,
          scale |-> 53 - BitLength(n)]

\* round to nearest, ties to even: q the first 53 bits of a quotient, rest
\* the remainder left (doubled) and d the divisor
RoundQuotient(q, twiceRest, d, scale) ==
    LET up == IF twiceRest = d THEN q.lo % 2 = 1 ELSE SigGeq(twiceRest, d)
        next == IF q.lo + 1 = Half THEN [hi |-> q.hi + 1, lo |-> 0]
                ELSE [hi |-> q.hi, lo |-> q.lo + 1]
    IN  IF ~up THEN [hi |-> q.hi, lo |-> q.lo, scale |-> scale]
        ELSE IF next.hi = 2 * Top THEN [hi |-> Top, lo |-> 0, scale |-> scale - 1]
        ELSE [hi |-> next.hi, lo |-> next.lo, scale |-> scale]

\* long division: one more bit of the quotient, unless it has its 53 bits
DivideStep(s, d) ==
    IF s.q.hi >= Top THEN s
    ELSE LET twice == SigTwice(s.rest, 0)
         IN  IF SigGeq(twice, d)
             THEN [q |-> SigTwice(s.q, 1), rest |-> SigMinus(twice, d),
                   scale |-> s.scale + 1]
             ELSE [q |-> SigTwice(s.q, 0), rest |-> twice,
                   scale |-> s.scale + 1]

DivideSteps(s, d) ==
    DivideStep(DivideStep(DivideStep(DivideStep(
    DivideStep(DivideStep(DivideStep(DivideStep(s, d), d), d), d),
               d), d), d), d)

RECURSIVE DivideFrom(_, _)
DivideFrom(s, d) ==
    IF s.q.hi >= Top
    THEN RoundQuotient(s.q, SigTwice(s.rest, 0), d, s.scale)
    ELSE DivideFrom(DivideSteps(s, d), d)

\* n / y in doubles, for a whole number 0 <= n < 2^10 and a double y > 0:
\* n * 2^42 is below every significand, so the quotient bits start at 2^-1
NumDivide(n, y) ==
    IF n = 0 THEN NumZero
    ELSE DivideFrom([q |-> [hi |-> 0, lo |-> 0],
                     rest |-> [hi |-> n * Pow2[15], lo |-> 0],
                     scale |-> 42 - y.scale],
                    [hi |-> y.hi, lo |-> y.lo])

\* Math.floor of a double 0 <= x < 2^26
NumFloor(x) ==
    IF x = NumZero \/ x.scale >= 53 THEN 0
    ELSE x.hi \div Pow2[x.scale - 27]

\* the bits of x below the binary point, as a significand not yet shifted
FractionBits(x) ==
    IF x = NumZero THEN [hi |-> 0, lo |-> 0]
    ELSE IF x.scale >= 53 THEN [hi |-> x.hi, lo |-> x.lo]
    ELSE [hi |-> x.hi % Pow2[x.scale - 27], lo |-> x.lo]

\* Math.ceil of a double 0 <= x < 2^26
NumCeil(x) ==
    IF FractionBits(x) = [hi |-> 0, lo |-> 0] THEN NumFloor(x)
    ELSE NumFloor(x) + 1

\* shift a significand left until it has 53 bits
NormalizeStep(x) ==
    IF x.hi >= Top THEN x
    ELSE LET twice == SigTwice(x, 0)
         IN  [hi |-> twice.hi, lo |-> twice.lo, scale |-> x.scale + 1]

NormalizeSteps(x) ==
    NormalizeStep(NormalizeStep(NormalizeStep(NormalizeStep(
    NormalizeStep(NormalizeStep(NormalizeStep(NormalizeStep(x))))))))

RECURSIVE Normalized(_)
Normalized(x) == IF x.hi >= Top THEN x ELSE Normalized(NormalizeSteps(x))

\* x - Math.floor(x): exact in doubles
NumFraction(x) ==
    IF FractionBits(x) = [hi |-> 0, lo |-> 0] THEN NumZero
    ELSE Normalized([hi |-> FractionBits(x).hi, lo |-> FractionBits(x).lo,
                     scale |-> x.scale])

\* x < y for doubles x, y >= 0
NumLess(x, y) ==
    IF y = NumZero THEN FALSE
    ELSE IF x = NumZero THEN TRUE
    ELSE x.scale > y.scale \/ (x.scale = y.scale /\ ~SigGeq(x, y))

\* ------------------------------------------------ sequences (Array helpers)
\* Array.prototype.reduce((acc, x) => acc + x, 0) over a list of numbers
RECURSIVE SumSeq(_)
SumSeq(seq) == IF seq = <<>> THEN 0 ELSE Head(seq) + SumSeq(Tail(seq))

\* Array.prototype.indexOf, 1-based; 0 when absent
IndexOf(seq, x) ==
    IF \E i \in 1..Len(seq) : seq[i] = x
    THEN CHOOSE i \in 1..Len(seq) : seq[i] = x /\ \A j \in 1..(i - 1) : seq[j] # x
    ELSE 0

Swap(seq, i, j) == [seq EXCEPT ![i] = seq[j], ![j] = seq[i]]

\* ------------------------------------------- the divisions, worked out once
\* the totals of members a snapshot of this model can have, with the numbers
\* of delegates it can elect
Divisions ==
    {<<members, seats>> :
        members \in 0..(MaxSubs * MaxCount),
        seats \in 1..(IF MaxSeats > MaxAllowed THEN MaxSeats ELSE MaxAllowed)}
    \cup {<<SumSeq(counts), seats>> :
            counts \in [1..WideSubs -> WideCounts], seats \in WideSeats}

\* members / allowed for each of them
Quotients ==
    [k \in {d : d \in Divisions} |-> NumDivide(k[1], NumOfInt(k[2]))]

\* this.participants / this.allowed, this.viableParticipants / this.allowed
NumDivision(members, seats) == Quotients[<<members, seats>>]

\* count / delegateDivisor: its whole part and the rest
ShareOf(count, divisor) ==
    [baseDelegates |->
        IF divisor = NumZero THEN 0 ELSE NumFloor(NumDivide(count, divisor)),
     remainder |->
        IF divisor = NumZero THEN NumZero
        ELSE NumFraction(NumDivide(count, divisor))]

\* what setViability can be asked: a count and a divisor it is divided by
Shares ==
    [k \in {<<c, Quotients[d]>> : c \in Counts \cup WideCounts,
                                  d \in Divisions} |-> ShareOf(k[1], k[2])]

\* -------------------------------------------------------------- SubCalcPRNG
\* A linear congruential generator: next state (a * s + c) mod m, a draw
\* below `bound` taken from the high part of the state.
PrngModulus == 64
PrngMultiplier == 13
PrngIncrement == 7

PrngSeeded(seed) == seed % PrngModulus

PrngNext(state) == (PrngMultiplier * state + PrngIncrement) % PrngModulus

\* randomUpTo(bound): a value in 0..bound-1 read off the state just produced
RandomUpTo(state, bound) == (state * bound) \div PrngModulus

\* ---------------------------------------------------------------- Subcaucus
\* a Subcaucus as its constructor leaves it
NewSubcaucus(id, count) ==
    [id |-> id, name |-> "", count |-> count, baseDelegates |-> 0,
     remainder |-> NumZero,
     remainderDelegates |-> 0, reportTosses |-> FALSE, tossLog |-> <<>>]

clearDelegateInfo(s) ==
    [s EXCEPT !.baseDelegates = 0, !.remainder = NumZero,
              !.remainderDelegates = 0, !.reportTosses = FALSE,
              !.tossLog = <<>>]

\* baseDelegates = floor(count / delegateDivisor), remainder = the rest
setViability(s, delegateDivisor) ==
    LET share == Shares[<<s.count, delegateDivisor>>]
    IN  [s EXCEPT !.baseDelegates = share.baseDelegates,
                  !.remainder = share.remainder]

coinToss(s, won, against) ==
    [s EXCEPT !.tossLog = Append(@, [won |-> won, against |-> against.id])]

addRemainderDelegate(s) == [s EXCEPT !.remainderDelegates = 1]

\* Subcaucus total: base plus remainder delegates
TotalOf(s) == s.baseDelegates + s.remainderDelegates

\* ----------------------------------------------------------------- Snapshot
VARIABLES
    name,                    \* the name of the meeting
    allowed,                 \* delegates to be elected
    seed,                    \* seed of the coin
    revision,                \* "" for the current snapshot, a label once saved
    subcaucuses,             \* the TSMap's values in insertion order
    participants,
    totalDelegates,
    participantsPerDelegate,
    viabilityNumber,
    viableParticipants,
    delegateDivisor,
    phase,                   \* what the last operation on the snapshot was
    issued,                  \* history: the highest id given to a subcaucus
                             \* of this snapshot so far (0 when none)
    draws                    \* history: the bounds handed to randomUpTo by
                             \* the last redistributeDelegates, in order

\* SubCalcStorage, the browser and the caller of the storage
VARIABLES
    meetings,                \* SubCalcStorage.meetings: key -> Meeting
    currentMeetingKey,       \* SubCalcStorage.currentMeetingKey
    localStorage,            \* the item "subcalc2" and the meeting items
    objects,                 \* the heap: reference -> subcaucus map
    held,                    \* the snapshot the caller got from the storage
    call                     \* history: the last call to the storage

snapshotVars ==
    <<name, allowed, seed, revision, subcaucuses, participants, totalDelegates,
      participantsPerDelegate, viabilityNumber, viableParticipants,
      delegateDivisor, phase, issued, draws>>

storageVars ==
    <<meetings, currentMeetingKey, localStorage, objects, held, call>>

\* the App component, the row being edited and the card with a field
VARIABLES
    cards,                   \* App.state.cards
    presented,               \* what renderNextCard returned at the last render
    sortName,                \* App.state.sortName
    sortCount,               \* App.state.sortCount
    value,                   \* ValueCard.state.value of the presented card
    typed,                   \* SubcaucusRow.state.count of the row in focus
    event                    \* history: the last handler that ran

appVars == <<cards, presented, sortName, sortCount, value, typed, event>>

vars == <<snapshotVars, storageVars, appVars>>

\* the snapshot object as one record
Snapshot ==
    [name |-> name, allowed |-> allowed, seed |-> seed,
     revision |-> revision,
     subcaucuses |-> subcaucuses, participants |-> participants,
     totalDelegates |-> totalDelegates,
     participantsPerDelegate |-> participantsPerDelegate,
     viabilityNumber |-> viabilityNumber,
     viableParticipants |-> viableParticipants,
     delegateDivisor |-> delegateDivisor, draws |-> draws]

\* (mutation: the reset is left out)
ResetNothing(subs) == subs

\* (mutation: the reset clears the counts too)
ResetCounts(subs) ==
    [i \in DOMAIN subs |-> [clearDelegateInfo(subs[i]) EXCEPT !.count = 0]]

\* subs.forEach((s) => s.clearDelegateInfo())
ResetAll(subs) == [i \in DOMAIN subs |-> clearDelegateInfo(subs[i])]

\* subs.reduce((acc, sub) => acc + sub.count, 0)
Participants(subs) == SumSeq([i \in DOMAIN subs |-> subs[i].count])

\* (mutation: Math.floor in place of Math.ceil)
ViabilityNumberFloored(perDelegate) == NumFloor(perDelegate)

\* Math.ceil(this.participantsPerDelegate)
ViabilityNumberOf(perDelegate) == NumCeil(perDelegate)

\* (mutation: the filter keeps every subcaucus)
IsViableAlways(s, viability) == TRUE

\* the filter predicate of vSubs
IsViable(s, viability) == s.count >= viability

\* vSubs: the positions in subs of the viable subcaucuses, in map order
ViablePositions(subs, viability) ==
    SelectSeq([i \in DOMAIN subs |-> i], LAMBDA i : IsViable(subs[i], viability))

InSeq(seq, x) == \E i \in DOMAIN seq : seq[i] = x

\* (mutation: the loop stops when one element is left)
RECURSIVE ShuffleFromShort(_, _, _)
ShuffleFromShort(s, m, prng) ==
    IF m <= 1 THEN s
    ELSE LET next == PrngNext(prng)
             i == RandomUpTo(next, m)
         IN  ShuffleFromShort([ranks |-> Swap(s.ranks, m, i + 1),
                               draws |-> Append(s.draws, m)], m - 1, next)

\* the while (m) loop: draw i = randomUpTo(m), decrement m, swap places m
\* and i; s.draws lists the bounds randomUpTo has been asked so far
RECURSIVE ShuffleFrom(_, _, _)
ShuffleFrom(s, m, prng) ==
    IF m = 0 THEN s
    ELSE LET next == PrngNext(prng)
             i == RandomUpTo(next, m)
         IN  ShuffleFrom([ranks |-> Swap(s.ranks, m, i + 1),
                          draws |-> Append(s.draws, m)], m - 1, next)

\* new SubCalcPRNG(seed) and the shuffle loop over vSubRanks = ids
Shuffled(ids, sd) ==
    ShuffleFrom([ranks |-> ids, draws |-> <<>>], Len(ids), PrngSeeded(sd))

\* vSubRanks after the shuffle
Shuffle(ids, sd) == Shuffled(ids, sd).ranks

SameRemainder(a, b) ==
    ~NumLess(a.remainder, b.remainder) /\ ~NumLess(b.remainder, a.remainder)

\* (mutation: the lower id wins the toss)
CoinFlipById(a, b, ranks) == IF a.id < b.id THEN -1 ELSE 1

CoinFlip(a, b, ranks) ==
    IF IndexOf(ranks, a.id) < IndexOf(ranks, b.id) THEN -1 ELSE 1

\* (mutation: the comparator looks at the shuffled ranks only)
CompareRanksOnly(a, b, ranks) == CoinFlip(a, b, ranks)

\* (mutation: the comparator puts the lowest remainders first)
CompareRemaindersAscending(a, b, ranks) ==
    IF NumLess(a.remainder, b.remainder) THEN -1
    ELSE IF NumLess(b.remainder, a.remainder) THEN 1
    ELSE CoinFlip(a, b, ranks)

\* the value the sort comparator returns for (a, b)
CompareRemainders(a, b, ranks) ==
    IF NumLess(b.remainder, a.remainder) THEN -1
    ELSE IF NumLess(a.remainder, b.remainder) THEN 1
    ELSE CoinFlip(a, b, ranks)

\* (mutation: both groups are told they won)
ReportTossBothWon(subs, pa, pb, ranks) ==
    IF SameRemainder(subs[pa], subs[pb])
    THEN [subs EXCEPT ![pa] = coinToss(subs[pa], TRUE, subs[pb]),
                      ![pb] = coinToss(subs[pb], TRUE, subs[pa])]
    ELSE subs

\* what one call of the comparator on subs[pa], subs[pb] does to the two
ReportToss(subs, pa, pb, ranks) ==
    IF SameRemainder(subs[pa], subs[pb])
    THEN LET flip == CoinFlip(subs[pa], subs[pb], ranks)
         IN  [subs EXCEPT ![pa] = coinToss(subs[pa], flip = -1, subs[pb]),
                          ![pb] = coinToss(subs[pb], flip = 1, subs[pa])]
    ELSE subs

\* Array.prototype.sort on a short array: insertion sort.  The inner loop
\* compares the element to its left neighbours, comparefn(a[j], element),
\* until one is not after it.
RECURSIVE InsertInto(_, _, _, _, _)
InsertInto(arr, j, element, subs, ranks) ==
    IF j = 0 THEN [arr |-> [arr EXCEPT ![1] = element], subs |-> subs]
    ELSE LET tmp == arr[j]
             order == CompareRemainders(subs[tmp], subs[element], ranks)
             told == ReportToss(subs, tmp, element, ranks)
         IN  IF order > 0
             THEN InsertInto([arr EXCEPT ![j + 1] = tmp], j - 1, element,
                             told, ranks)
             ELSE [arr |-> [arr EXCEPT ![j + 1] = element], subs |-> told]

RECURSIVE SortFrom(_, _, _, _)
SortFrom(arr, i, subs, ranks) ==
    IF i > Len(arr) THEN [arr |-> arr, subs |-> subs]
    ELSE LET r == InsertInto(arr, i - 1, arr[i], subs, ranks)
         IN  SortFrom(r.arr, i + 1, r.subs, ranks)

\* vSubs.sort(...): the sorted positions and the subcaucuses with their tosses
SortByRemainder(vSubs, subs, ranks) == SortFrom(vSubs, 2, subs, ranks)

\* (mutation: the walk stops one seat early)
SeatsRemainButOne(total, limit) == total + 1 < limit

\* this.totalDelegates < this.allowed
SeatsRemain(total, limit) == total < limit

\* one turn of vSubs.forEach in the remainder walk, on the subcaucus at p
WalkStep(w, p, limit) ==
    LET s == w.subs[p]
    IN  IF SeatsRemain(w.totalDelegates, limit)
        THEN [subs |-> [w.subs EXCEPT ![p] = addRemainderDelegate(s)],
              totalDelegates |-> w.totalDelegates + 1,
              justAddedRemainderDelegate |-> TRUE,
              remainder |-> s.remainder,
              reportingTo |-> IF w.remainder # s.remainder
                              THEN <<p>>
                              ELSE Append(w.reportingTo, p)]
        ELSE IF w.remainder = s.remainder
        THEN [w EXCEPT !.reportingTo = Append(@, p),
                       !.justAddedRemainderDelegate = FALSE]
        ELSE [w EXCEPT !.reportingTo = IF w.justAddedRemainderDelegate
                                       THEN <<>> ELSE @,
                       !.remainder = NumMinusOne,
                       !.justAddedRemainderDelegate = FALSE]

RECURSIVE Walk(_, _, _)
Walk(w, order, limit) ==
    IF order = <<>> THEN w
    ELSE Walk(WalkStep(w, Head(order), limit), Tail(order), limit)

\* reportingTo.forEach((s) => { s.reportTosses = true })
MarkReports(subs, reportingTo) ==
    [i \in DOMAIN subs |->
        IF InSeq(reportingTo, i) THEN [subs[i] EXCEPT !.reportTosses = TRUE]
        ELSE subs[i]]

\* the remainder walk over the sorted viable subcaucuses
WalkSorted(sorted, total, limit) ==
    Walk([subs |-> sorted.subs, totalDelegates |-> total,
          remainder |-> NumMinusOne, reportingTo |-> <<>>,
          justAddedRemainderDelegate |-> FALSE],
         sorted.arr, limit)

\* the snapshot as the walk leaves it
Walked(snap, divisor, drawn, walked) ==
    [snap EXCEPT !.delegateDivisor = divisor,
                 !.draws = drawn,
                 !.totalDelegates = walked.totalDelegates,
                 !.subcaucuses = MarkReports(walked.subs, walked.reportingTo)]

\* redistributeDelegates from the shuffle on, `based` being the subcaucuses
\* after setViability
ApportionBased(snap, vSubs, divisor, based, shuffled) ==
    Walked(snap, divisor, shuffled.draws,
           WalkSorted(
               SortByRemainder(vSubs, based, shuffled.ranks),
               SumSeq([k \in DOMAIN vSubs |-> based[vSubs[k]].baseDelegates]),
               snap.allowed))

\* redistributeDelegates from setViability on, `divisor` being delegateDivisor
ApportionBy(snap, vSubs, divisor, based) ==
    ApportionBased(snap, vSubs, divisor, based,
                   Shuffled([k \in DOMAIN vSubs |-> based[vSubs[k]].id],
                            snap.seed))

\* redistributeDelegates from the proportional step on (viableParticipants > 0)
ApportionWith(snap, subs, vSubs, divisor) ==
    ApportionBy(snap, vSubs, divisor,
                [i \in DOMAIN subs |->
                    IF InSeq(vSubs, i) THEN setViability(subs[i], divisor)
                    ELSE subs[i]])

Apportion(snap, subs, vSubs) ==
    ApportionWith(snap, subs, vSubs,
                  NumDivision(snap.viableParticipants, snap.allowed))

\* Snapshot.redistributeDelegates: the snapshot it leaves behind
RedistributeDelegates(snap) ==
    IF snap.allowed = 0 THEN [snap EXCEPT !.draws = <<>>]
    ELSE LET subs == ResetAll(snap.subcaucuses)
             people == Participants(subs)
             counted == [snap EXCEPT !.subcaucuses = subs,
                                     !.participants = people,
                                     !.draws = <<>>]
         IN  IF people = 0 THEN counted
             ELSE LET perDelegate == NumDivision(people, snap.allowed)
                      viability == ViabilityNumberOf(perDelegate)
                      vSubs == ViablePositions(subs, viability)
                      viable == SumSeq([k \in DOMAIN vSubs |-> subs[vSubs[k]].count])
                      pooled == [counted EXCEPT
                                    !.participantsPerDelegate = perDelegate,
                                    !.viabilityNumber = viability,
                                    !.viableParticipants = viable]
                  IN  IF viable = 0 THEN pooled
                      ELSE Apportion(pooled, subs, vSubs)

\* the snapshot after an operation that leaves it as `snap`
SnapshotBecomes(snap) ==
    /\ name' = snap.name
    /\ allowed' = snap.allowed
    /\ seed' = snap.seed
    /\ revision' = snap.revision
    /\ subcaucuses' = snap.subcaucuses
    /\ participants' = snap.participants
    /\ totalDelegates' = snap.totalDelegates
    /\ participantsPerDelegate' = snap.participantsPerDelegate
    /\ viabilityNumber' = snap.viabilityNumber
    /\ viableParticipants' = snap.viableParticipants
    /\ delegateDivisor' = snap.delegateDivisor
    /\ draws' = snap.draws

\* the state after an operation on the snapshot alone
Becomes(snap) ==
    /\ SnapshotBecomes(snap)
    /\ issued' = issued
    /\ UNCHANGED storageVars
    /\ UNCHANGED appVars

\* ------------------------------------------------------------------- state
\* the aggregate fields of a Snapshot object that has not computed yet
NoAggregates(a, sd, rev, subs) ==
    [name |-> "", allowed |-> a, seed |-> sd, revision |-> rev,
     subcaucuses |-> subs,
     participants |-> 0, totalDelegates |-> 0,
     participantsPerDelegate |-> NumZero, viabilityNumber |-> 0,
     viableParticipants |-> 0, delegateDivisor |-> NumZero,
     draws |-> <<>>]

Revisions == {"", "saved"}

\* Math.max(...keys) of a map, 0 for the empty map
MaxKey(subs) ==
    IF Len(subs) = 0 THEN 0
    ELSE LET keys == {subs[i].id : i \in DOMAIN subs}
         IN  CHOOSE k \in keys : \A other \in keys : other <= k

\* every list of at most MaxSubs new subcaucuses with different ids: the maps
\* a caller can hand to the constructor as with.subcaucuses
FreshLists ==
    UNION {
        { [i \in 1..n |-> NewSubcaucus(ids[i], counts[i])] :
            ids \in { f \in [1..n -> Ids] :
                        \A i, j \in 1..n : i # j => f[i] # f[j] },
            counts \in [1..n -> Counts] }
        : n \in 0..MaxSubs }

\* the maps addSubcaucus and fromJSON build: ids ascending in insertion order
\* (addSubcaucus appends max + 1, fromJSON walks Object.keys in key order)
AscendingLists ==
    { subs \in FreshLists :
        \A i, j \in DOMAIN subs : i < j => subs[i].id < subs[j].id }

\* ----------------------------------------------------------- SubCalcStorage
\* The storage object of SubCalcStorage.ts (the later of the two versions of
\* the file): the meetings map, the current meeting key, the browser's
\* localStorage and the snapshot the caller of the storage holds. A
\* subcaucus map is an object on a heap, named by a reference, so that two
\* snapshots can hold the same map. Every meeting is written by the one
\* author of this browser, so a meeting key is determined by the meeting's
\* created timestamp.

MaxStamps == 2          \* timestamps are 1..MaxStamps
MaxObjects == 3         \* subcaucus maps alive at the same time
MaxStoredIds == 1       \* subcaucus ids in a stored map
MaxStoredCount == 1     \* members of a stored subcaucus

Timestamps == 1..MaxStamps
Refs == 1..MaxObjects
StoredIds == 1..MaxStoredIds
StoredCounts == 0..MaxStoredCount

NoKey == 0              \* the empty string as a meeting key
NoTimestamp == 0        \* the optional timestamp argument left out
NoEntry == -1           \* a subcaucus id the map has no entry for
Undefined == [undefined |-> TRUE]

\* new TSMap()
EmptyTSMap == [k \in {} |-> k]

\* new TSMap<number, Subcaucus>(): no id has an entry
EmptyMap == [id \in StoredIds |-> NoEntry]

\* TSMap.set(key, value)
MapSet(map, key, entry) ==
    [k \in DOMAIN map \cup {key} |-> IF k = key THEN entry ELSE map[k]]

\* TSMap.delete(key)
MapDelete(map, key) == [k \in DOMAIN map \ {key} |-> map[k]]

\* map[property]: a TSMap keeps its entries in private arrays, so the object has
\* no property named by a timestamp
PropertyOf(map, property) == Undefined

\* the storage object, the heap and the caller's snapshot as one record
Storage ==
    [meetings |-> meetings, currentMeetingKey |-> currentMeetingKey,
     localStorage |-> localStorage, objects |-> objects, held |-> held]

\* the maps some snapshot refers to
Reachable(st) ==
    (IF st.held = Undefined THEN {} ELSE {st.held.subcaucuses})
    \cup {st.meetings[k].current.subcaucuses : k \in DOMAIN st.meetings}
    \cup UNION {{st.meetings[k].snapshots[t].subcaucuses :
                    t \in DOMAIN st.meetings[k].snapshots} :
                k \in DOMAIN st.meetings}

FreeRefs(st) == Refs \ Reachable(st)

\* the reference of a newly created map
NewRef(st) == CHOOSE r \in FreeRefs(st) : \A other \in FreeRefs(st) : r <= other

\* the reference held at the i-th place that can hold one (0 for none): the
\* caller's snapshot, then for each meeting its current snapshot and its
\* saved snapshots by timestamp
RefAt(st, i) ==
    IF i = 1
    THEN IF st.held = Undefined THEN 0 ELSE st.held.subcaucuses
    ELSE LET key == ((i - 2) \div (MaxStamps + 1)) + 1
             stamp == (i - 2) % (MaxStamps + 1)
         IN  IF key \notin DOMAIN st.meetings THEN 0
             ELSE IF stamp = 0 THEN st.meetings[key].current.subcaucuses
             ELSE IF stamp \notin DOMAIN st.meetings[key].snapshots THEN 0
             ELSE st.meetings[key].snapshots[stamp].subcaucuses

\* garbage collection: a map no snapshot refers to is gone, and the maps
\* left are named in the order of the places that refer to them (a
\* reference has no meaning beyond which places share it)
Collected(st) ==
    LET places == 1..(1 + MaxStamps * (MaxStamps + 1))
        at == [i \in places |-> RefAt(st, i)]
        live == {at[i] : i \in places} \ {0}
        first == [r \in live |->
                    CHOOSE i \in places :
                        at[i] = r /\ \A j \in 1..(i - 1) : at[j] # r]
        rank == [r \in live |->
                    Cardinality({at[j] : j \in 1..(first[r] - 1)} \ {0}) + 1]
        moved(snapshot) ==
            [snapshot EXCEPT !.subcaucuses = rank[snapshot.subcaucuses]]
    IN  [st EXCEPT
            !.objects = [n \in Refs |->
                            IF n <= Cardinality(live)
                            THEN st.objects[CHOOSE r \in live : rank[r] = n]
                            ELSE EmptyMap],
            !.held = IF st.held = Undefined THEN Undefined
                     ELSE moved(st.held),
            !.meetings = [k \in DOMAIN st.meetings |->
                            [st.meetings[k] EXCEPT
                                !.current = moved(st.meetings[k].current),
                                !.snapshots =
                                    [t \in DOMAIN st.meetings[k].snapshots |->
                                        moved(st.meetings[k].snapshots[t])]]]]

\* Snapshot.toJSON(), without its subcaucuses: nothing below reads the
\* groups of a stored item
SnapshotJSON(snapshot) ==
    [created |-> snapshot.created, revised |-> snapshot.revised,
     revision |-> snapshot.revision]

\* the jsonMeeting of writeMeeting (the order of the snapshots array is left
\* out)
MeetingJSON(meeting) ==
    [created |-> meeting.created,
     current |-> SnapshotJSON(meeting.current),
     snapshots |-> {SnapshotJSON(meeting.snapshots[t]) :
                        t \in DOMAIN meeting.snapshots}]

\* SubCalcStorage.meetingKey(created): `${created} ${author}`
meetingKey(created) == created

\* SubCalcStorage.setCurrentMeetingKey(meetingKey); localStorage.setItem is
\* taken to succeed
setCurrentMeetingKey(st, key) ==
    [st EXCEPT !.currentMeetingKey = key,
               !.localStorage = [@ EXCEPT !.subcalc2 = key]]

\* SubCalcStorage.writeMeeting(meeting)
writeMeeting(st, meeting) ==
    LET keyed == setCurrentMeetingKey(st, meeting.key)
    IN  [keyed EXCEPT !.localStorage =
            [@ EXCEPT !.items = MapSet(@, meeting.key, MeetingJSON(meeting))]]

\* snapshot.clone(): a new Snapshot over a new map with the same entries
clone(snapshot, r) ==
    [created |-> snapshot.created, revised |-> snapshot.revised,
     revision |-> snapshot.revision, subcaucuses |-> r,
     subcacucuses |-> FALSE]

\* SubCalcStorage.writeMeetingSnapshot(snapshot); the clone is garbage when
\* the meeting is not found
writeMeetingSnapshot(st, snapshot) ==
    LET key == meetingKey(snapshot.created)
        r == NewRef(st)
    IN  IF key \in DOMAIN st.meetings
        THEN LET meeting == st.meetings[key]
                 updated ==
                    IF snapshot.revision = ""
                    THEN [meeting EXCEPT !.current = clone(snapshot, r)]
                    ELSE [meeting EXCEPT !.snapshots =
                            MapSet(@, snapshot.revised, clone(snapshot, r))]
                 stored ==
                    [st EXCEPT !.objects[r] = st.objects[snapshot.subcaucuses],
                               !.meetings = MapSet(@, key, updated)]
             IN  writeMeeting(stored, updated)
        ELSE st

\* SubCalcStorage.newMeeting(): the new snapshot is returned to the caller
newMeeting(st, created, revised) ==
    LET r == NewRef(st)
        snapshot == [created |-> created, revised |-> revised,
                     revision |-> "", subcaucuses |-> r,
                     subcacucuses |-> FALSE]
        key == meetingKey(created)
        meeting == [key |-> key, created |-> created, current |-> snapshot,
                    snapshots |-> EmptyTSMap]
        set == [st EXCEPT !.objects[r] = EmptyMap,
                          !.meetings = MapSet(@, key, meeting),
                          !.held = snapshot]
    IN  writeMeetingSnapshot(setCurrentMeetingKey(set, key), snapshot)

\* (mutation: the current key is left alone)
deleteMeetingKeepingKey(st, key) ==
    [st EXCEPT !.meetings = MapDelete(@, key),
               !.localStorage = [@ EXCEPT !.items = MapDelete(@, key)]]

\* SubCalcStorage.deleteMeeting(meetingKey)
deleteMeeting(st, key) ==
    LET cleared == IF key = st.currentMeetingKey
                   THEN setCurrentMeetingKey(st, NoKey) ELSE st
    IN  [cleared EXCEPT !.meetings = MapDelete(@, key),
                        !.localStorage =
                            [@ EXCEPT !.items = MapDelete(@, key)]]

\* (mutation: the current snapshot is not spared)
deleteSnapshotUnguarded(st, snapshot) ==
    LET key == meetingKey(snapshot.created)
    IN  IF key \notin DOMAIN st.meetings THEN st
        ELSE LET updated == [st.meetings[key] EXCEPT !.snapshots =
                                MapDelete(@, snapshot.revised)]
             IN  writeMeeting([st EXCEPT !.meetings = MapSet(@, key, updated)],
                              updated)

\* SubCalcStorage.deleteSnapshot(snapshot)
deleteSnapshot(st, snapshot) ==
    LET key == meetingKey(snapshot.created)
    IN  IF snapshot.revision = "" THEN st
        ELSE IF key \notin DOMAIN st.meetings THEN st
        ELSE LET updated == [st.meetings[key] EXCEPT !.snapshots =
                                MapDelete(@, snapshot.revised)]
             IN  writeMeeting([st EXCEPT !.meetings = MapSet(@, key, updated)],
                              updated)

\* SubCalcStorage.copySnapshot(snapshot): the spread keeps every property of
\* the original, its subcaucuses map included; the new map goes under the
\* key `subcacucuses` (here: whether the snapshot has that property), where
\* nothing reads it
copySnapshot(st, snapshot) == [snapshot EXCEPT !.subcacucuses = TRUE]

\* (mutation: the current key is set before the meeting is looked up)
getSnapshotCopyEager(st, meetingKeyArg, timestamp) ==
    LET key == IF meetingKeyArg = NoKey THEN st.currentMeetingKey
               ELSE meetingKeyArg
    IN  IF key \in DOMAIN st.meetings /\ timestamp = NoTimestamp
        THEN [st EXCEPT !.currentMeetingKey = key,
                        !.held = copySnapshot(st, st.meetings[key].current)]
        ELSE [st EXCEPT !.currentMeetingKey = key, !.held = Undefined]

\* SubCalcStorage.getSnapshotCopy(meetingKey = '', timestamp?); the result is
\* what the caller holds afterwards
getSnapshotCopy(st, meetingKeyArg, timestamp) ==
    LET key == IF meetingKeyArg = NoKey THEN st.currentMeetingKey
               ELSE meetingKeyArg
    IN  IF meetingKeyArg = NoKey /\ st.currentMeetingKey = NoKey
        THEN [st EXCEPT !.held = Undefined]
        ELSE IF key \notin DOMAIN st.meetings
        THEN [st EXCEPT !.held = Undefined]
        ELSE IF timestamp = NoTimestamp
        THEN [st EXCEPT !.currentMeetingKey = key,
                        !.held = copySnapshot(st, st.meetings[key].current)]
        ELSE LET snapshot == PropertyOf(st.meetings[key].snapshots, timestamp)
             IN  IF snapshot = Undefined
                 THEN [st EXCEPT !.held = Undefined]
                 ELSE [st EXCEPT !.currentMeetingKey = key,
                                 !.held = copySnapshot(st, snapshot)]

\* history: the last call and, where a property below asks for it, how it
\* ended
Called(method, outcome) == [name |-> method, outcome |-> outcome]

\* what renderNextCard returns when no card is waiting (<></>)
NoCard == -1

\* no row is being edited
NoTyped == [row |-> 0, count |-> 0]

\* no handler has run yet
NoEvent == [name |-> "", arg |-> "", outcome |-> ""]

\* an App that is not looked at: no card, nothing sorted, nothing typed
NoApp ==
    /\ cards = <<>>
    /\ presented = NoCard
    /\ sortName = 0
    /\ sortCount = 0
    /\ value = ""
    /\ typed = NoTyped
    /\ event = NoEvent

\* the fields of SubCalcStorage before its constructor has run, an empty
\* localStorage and an empty heap
NoStorage ==
    /\ meetings = EmptyTSMap
    /\ currentMeetingKey = NoKey
    /\ localStorage = [subcalc2 |-> NoKey, items |-> EmptyTSMap]
    /\ objects = [r \in Refs |-> EmptyMap]
    /\ held = Undefined
    /\ call = Called("none", "")

\* the state after a storage operation that leaves storage, heap and caller
\* as `st`; the snapshot of the first part of this module is not involved
StorageBecomes(st, made) ==
    /\ call' = made
    /\ UNCHANGED snapshotVars
    /\ UNCHANGED appVars
    /\ \E kept \in {Collected(st)} :
        /\ meetings' = kept.meetings
        /\ currentMeetingKey' = kept.currentMeetingKey
        /\ localStorage' = kept.localStorage
        /\ objects' = kept.objects
        /\ held' = kept.held

\* storage.newMeeting() at the time `created`
NewMeeting(created) ==
    /\ Cardinality(FreeRefs(Storage)) >= 2
    /\ StorageBecomes(newMeeting(Storage, created, created),
                      Called("newMeeting", ""))

\* storage.writeMeetingSnapshot(held): the caller has the snapshot it holds
\* written as the current one
WriteCurrent ==
    /\ held # Undefined
    /\ FreeRefs(Storage) # {}
    /\ StorageBecomes(
            writeMeetingSnapshot(Storage, [held EXCEPT !.revision = ""]),
            Called("writeMeetingSnapshot", ""))

\* storage.writeMeetingSnapshot(saved): the caller has the snapshot it holds
\* written under a label, revised at `revised`
WriteSaved(revised) ==
    /\ held # Undefined
    /\ FreeRefs(Storage) # {}
    /\ StorageBecomes(
            writeMeetingSnapshot(Storage,
                                 [held EXCEPT !.revision = "saved",
                                              !.revised = revised]),
            Called("writeMeetingSnapshot", ""))

\* storage.deleteMeeting(key)
DeleteMeeting(key) ==
    /\ key \in Timestamps
    /\ StorageBecomes(deleteMeeting(Storage, key),
                      Called("deleteMeeting",
                             IF key = currentMeetingKey THEN "current"
                             ELSE ""))

\* the snapshots a caller can hand to deleteSnapshot, by the fields it reads
SnapshotArgs ==
    [created : Timestamps, revised : Timestamps, revision : {"", "saved"}]

\* storage.deleteSnapshot(snapshot)
DeleteSnapshot(snapshot) ==
    /\ snapshot \in SnapshotArgs
    /\ StorageBecomes(
            deleteSnapshot(Storage, snapshot),
            Called("deleteSnapshot",
                   IF /\ snapshot.revision # ""
                      /\ meetingKey(snapshot.created) \in DOMAIN meetings
                      /\ snapshot.revised \in DOMAIN
                            meetings[meetingKey(snapshot.created)].snapshots
                   THEN "removed" ELSE ""))

\* storage.getSnapshotCopy(key, timestamp)
GetSnapshotCopy(key, timestamp) ==
    /\ timestamp \in Timestamps \cup {NoTimestamp}
    /\ StorageBecomes(
            getSnapshotCopy(Storage, key, timestamp),
            Called("getSnapshotCopy",
                   IF key # NoKey /\ key \notin DOMAIN meetings
                   THEN "no meeting" ELSE ""))

\* the caller edits the snapshot it holds: a new empty subcaucus
HeldAddSubcaucus(id) ==
    /\ held # Undefined
    /\ objects[held.subcaucuses][id] = NoEntry
    /\ StorageBecomes([Storage EXCEPT !.objects[held.subcaucuses][id] = 0],
                      Called("edit", ""))

\* ... a subcaucus deleted
HeldDeleteSubcaucus(id) ==
    /\ held # Undefined
    /\ objects[held.subcaucuses][id] # NoEntry
    /\ StorageBecomes(
            [Storage EXCEPT !.objects[held.subcaucuses][id] = NoEntry],
            Called("edit", ""))

\* ... the count of a subcaucus changed
HeldSetCount(id, count) ==
    /\ held # Undefined
    /\ objects[held.subcaucuses][id] \notin {NoEntry, count}
    /\ StorageBecomes(
            [Storage EXCEPT !.objects[held.subcaucuses][id] = count],
            Called("edit", ""))

\* new SubCalcStorage() in a browser without data: the constructor calls
\* newMeeting()
InitStorage ==
    /\ phase = "constructed"
    /\ allowed = 0
    /\ seed = 1
    /\ revision = ""
    /\ subcaucuses = <<>>
    /\ issued = 0
    /\ participants = 0
    /\ totalDelegates = 0
    /\ participantsPerDelegate = NumZero
    /\ viabilityNumber = 0
    /\ viableParticipants = 0
    /\ delegateDivisor = NumZero
    /\ draws = <<>>
    /\ name = ""
    /\ NoApp
    /\ \E created \in Timestamps :
        LET blank == [meetings |-> EmptyTSMap, currentMeetingKey |-> NoKey,
                      localStorage |-> [subcalc2 |-> NoKey,
                                        items |-> EmptyTSMap],
                      objects |-> [r \in Refs |-> EmptyMap],
                      held |-> Undefined]
            made == Collected(newMeeting(blank, created, created))
        IN  /\ meetings = made.meetings
            /\ currentMeetingKey = made.currentMeetingKey
            /\ localStorage = made.localStorage
            /\ objects = made.objects
            /\ held = made.held
            /\ call = Called("constructor", "")

NextStorage ==
    \/ \E created \in Timestamps : NewMeeting(created)
    \/ WriteCurrent
    \/ \E revised \in Timestamps : WriteSaved(revised)
    \/ \E key \in Timestamps : DeleteMeeting(key)
    \/ \E snapshot \in SnapshotArgs : DeleteSnapshot(snapshot)
    \/ \E key \in Timestamps \cup {NoKey},
          timestamp \in Timestamps \cup {NoTimestamp} :
            GetSnapshotCopy(key, timestamp)
    \/ \E id \in StoredIds : HeldAddSubcaucus(id)
    \/ \E id \in StoredIds : HeldDeleteSubcaucus(id)
    \/ \E id \in StoredIds, count \in StoredCounts : HeldSetCount(id, count)

SpecStorage == InitStorage /\ [][NextStorage]_vars

\* a Snapshot right after construction over the map `subs`
Constructed(lists) ==
    /\ phase = "constructed"
    /\ allowed \in Alloweds
    /\ seed \in Seeds
    /\ revision \in Revisions
    /\ subcaucuses \in lists
    /\ issued = MaxKey(subcaucuses)
    /\ participants = 0
    /\ totalDelegates = 0
    /\ participantsPerDelegate = NumZero
    /\ viabilityNumber = 0
    /\ viableParticipants = 0
    /\ delegateDivisor = NumZero
    /\ draws = <<>>
    /\ name = ""
    /\ NoApp
    /\ NoStorage

\* new Snapshot({device, created}) grown by addSubcaucus, or
\* new Snapshot({device, created, json})
Init == Constructed(AscendingLists)

\* new Snapshot({device, created, with: {..., subcaucuses}}) over any map
InitWith == Constructed(FreshLists)

\* ----------------------------------------------------------------- actions
Absent == -1     \* a key the update object does not have

\* the names a meeting is given
MeetingNames == {"Caucus"}

\* the update objects with allowed and seed; a name of "" is no name or an
\* empty one, which revise treats alike
Updates ==
    [allowed : Alloweds \cup {Absent}, seed : Seeds \cup {Absent}, name : {""}]

\* the update objects with a name only
Renames == [allowed : {Absent}, seed : {Absent}, name : MeetingNames]

\* if (update.x): the key is present and its value is not 0
Truthy(v) == v # Absent /\ v # 0

\* Snapshot.revise(update) without its final redistributeDelegates()
Revised(snap, update) ==
    [snap EXCEPT !.revision = "",
                 !.name = IF update.name # "" THEN update.name ELSE @,
                 !.allowed = IF Truthy(update.allowed) THEN update.allowed ELSE @,
                 !.seed = IF Truthy(update.seed) THEN update.seed ELSE @]

\* Snapshot.revise(update)
Revise(update) ==
    /\ Becomes(RedistributeDelegates(Revised(Snapshot, update)))
    /\ phase' = "computed"

\* Snapshot.clearCounts()
ClearCounts ==
    /\ Becomes(RedistributeDelegates(
          [Snapshot EXCEPT !.revision = "",
                           !.subcaucuses = [i \in DOMAIN subcaucuses |->
                               [subcaucuses[i] EXCEPT !.count = 0]]]))
    /\ phase' = "computed"

\* SubcaucusRow.handleCount then handleCountBlur on row p: the count is
\* stored and 'recalc' sent only when it differs; App.handleSubcaucusChange
\* answers 'recalc' with setStateSubcaucuses, which revises the snapshot
\* with no update.
SetCount(p, count) ==
    /\ p \in DOMAIN subcaucuses
    /\ subcaucuses[p].count # count
    /\ Becomes(RedistributeDelegates(
          [Snapshot EXCEPT !.revision = "",
                           !.subcaucuses[p].count = count]))
    /\ phase' = "computed"

\* Snapshot.nextSubcaucusID()
nextSubcaucusID(subs) ==
    IF Len(subs) = 0 THEN 1
    ELSE LET keys == {subs[i].id : i \in DOMAIN subs}
         IN  (CHOOSE k \in keys : \A other \in keys : other <= k) + 1

\* Snapshot.addSubcaucus(): a new empty subcaucus at the end of the map
AddSubcaucus ==
    /\ Len(subcaucuses) < MaxSubs
    /\ nextSubcaucusID(subcaucuses) \in Ids
    /\ subcaucuses' = Append(subcaucuses,
                             NewSubcaucus(nextSubcaucusID(subcaucuses), 0))
    /\ issued' = IF nextSubcaucusID(subcaucuses) > issued
                 THEN nextSubcaucusID(subcaucuses) ELSE issued
    /\ phase' = "added"
    /\ UNCHANGED <<name, allowed, seed, revision, participants,
                   totalDelegates, participantsPerDelegate, viabilityNumber,
                   viableParticipants, delegateDivisor, draws>>
    /\ UNCHANGED storageVars
    /\ UNCHANGED appVars

\* Snapshot.deleteSubcaucus(id)
DeleteSubcaucus(id) ==
    /\ \E i \in DOMAIN subcaucuses : subcaucuses[i].id = id
    /\ subcaucuses' = SelectSeq(subcaucuses, LAMBDA s : s.id # id)
    /\ phase' = "deleted"
    /\ UNCHANGED <<issued, name, allowed, seed, revision, participants,
                   totalDelegates, participantsPerDelegate, viabilityNumber,
                   viableParticipants, delegateDivisor, draws>>
    /\ UNCHANGED storageVars
    /\ UNCHANGED appVars

\* snapshot.redistributeDelegates() called on its own (App constructor,
\* App.loadSnapshot)
Recalculate ==
    /\ Becomes(RedistributeDelegates(Snapshot))
    /\ phase' = IF phase \in {"computed", "recomputed"}
                THEN "recomputed" ELSE "computed"

\* new Snapshot({device, created, with: {allowed: a, seed, subcaucuses}}) over
\* the map this snapshot holds: the constructor keeps the map it is given
\* (the same Subcaucus objects), takes `allowed || 0` and
\* `seed || randomSeed()`, and starts with no aggregates.
Reconstruct(a, random) ==
    /\ Becomes(NoAggregates(a, IF seed # 0 THEN seed ELSE random, "",
                            subcaucuses))
    /\ phase' = "constructed"

Next ==
    \/ \E update \in Updates : Revise(update)
    \/ ClearCounts
    \/ \E p \in 1..MaxSubs, count \in Counts : SetCount(p, count)
    \/ AddSubcaucus
    \/ \E id \in Ids : DeleteSubcaucus(id)
    \/ Recalculate

Spec == Init /\ [][Next]_vars

\* a snapshot built over a map the caller supplies, computed and revised
NextWith ==
    \/ \E update \in Updates : Revise(update)
    \/ Recalculate
    \/ \E a \in Alloweds, random \in Seeds : Reconstruct(a, random)

SpecWith == InitWith /\ [][NextWith]_vars

\* ------------------------------------------------ snapshots with more seats
\* Ties between three groups and ties among the groups that all win or all
\* lose a leftover seat need more delegates than members: these snapshots
\* are built over any map with up to MaxSeats delegates allowed.

InitTies ==
    /\ phase = "constructed"
    /\ allowed \in 1..MaxSeats
    /\ seed \in Seeds
    /\ revision = ""
    /\ subcaucuses \in FreshLists
    /\ issued = MaxKey(subcaucuses)
    /\ participants = 0
    /\ totalDelegates = 0
    /\ participantsPerDelegate = NumZero
    /\ viabilityNumber = 0
    /\ viableParticipants = 0
    /\ delegateDivisor = NumZero
    /\ draws = <<>>
    /\ name = ""
    /\ NoApp
    /\ NoStorage

\* computed, computed again under another seed, and renamed
NextTies ==
    \/ Recalculate
    \/ \E update \in Renames \cup
                     {[allowed |-> Absent, seed |-> sd, name |-> ""] :
                         sd \in Seeds} :
          Revise(update)

SpecTies == InitTies /\ [][NextTies]_vars

\* ------------------------------------------------------- larger snapshots
\* WideSubs subcaucuses, ids 1..WideSubs as addSubcaucus hands them out
WideLists ==
    { [i \in 1..WideSubs |-> NewSubcaucus(i, counts[i])] :
        counts \in [1..WideSubs -> WideCounts] }

InitWide ==
    /\ phase = "constructed"
    /\ allowed \in WideSeats
    /\ seed \in Seeds
    /\ revision = ""
    /\ subcaucuses \in WideLists
    /\ issued = MaxKey(subcaucuses)
    /\ participants = 0
    /\ totalDelegates = 0
    /\ participantsPerDelegate = NumZero
    /\ viabilityNumber = 0
    /\ viableParticipants = 0
    /\ delegateDivisor = NumZero
    /\ draws = <<>>
    /\ name = ""
    /\ NoApp
    /\ NoStorage

\* computed, and computed again under another seed
NextWide ==
    \/ Recalculate
    \/ \E sd \in Seeds : Revise([allowed |-> Absent, seed |-> sd, name |-> ""])

SpecWide == InitWide /\ [][NextWide]_vars

\* --------------------------------------------------------------------- App
\* The App component (App.tsx): the cards waiting to be shown, the sort
\* orders of the list, and the snapshot it edits.  A handler ends with
\* setState or forceUpdate, so every action below ends with a render.

MaxCards == 3       \* most cards waiting at a time
MaxTyped == 1       \* largest number typed into a field

\* enum CardFor
WelcomeAndSetName == 0
ChangingName == 1
ChangingDelegates == 2
SavingSnapshot == 3
SavingSnapshotBeforeLoading == 4
RemovingEmpties == 5
ShowingAbout == 6
ShowingBy == 7
ShowingInstructions == 8
ShowingSecurity == 9

CardFors == WelcomeAndSetName..ShowingSecurity

\* the cards this.initialCardState holds
initialCardState == <<WelcomeAndSetName, ChangingDelegates>>

\* enum SortOrder
Descending == -1
None == 0
Ascending == 1

SortOrders == {Descending, None, Ascending}

\* a % n of JavaScript: the remainder has the sign of a
JsRemainder(a, n) == IF a >= 0 THEN a % n ELSE -((-a) % n)

\* (mutation: a negative remainder is not wrapped around)
nextSortOrderUnwrapped(currentOrder, direction) ==
    JsRemainder(currentOrder + direction + 1, 3) - 1

\* App.nextSortOrder(currentOrder, direction)
nextSortOrder(currentOrder, direction) ==
    LET nextOrder == JsRemainder(currentOrder + direction + 1, 3)
    IN  (IF nextOrder < 0 THEN nextOrder + 3 ELSE nextOrder) - 1

\* String(n) of a small whole number that is not negative
StringOf(n) == <<"0", "1", "2", "3", "4", "5", "6", "7", "8", "9">>[n + 1]

\* what is typed or pasted into a number field
Texts == {"", "-1"} \cup {StringOf(n) : n \in 0..MaxTyped}

\* Number(text)
NumberOf(text) ==
    IF text = "" THEN 0
    ELSE IF text = "-1" THEN -1
    ELSE CHOOSE n \in 0..9 : StringOf(n) = text

\* (mutation: the comparator sorts the lowest card first)
CardCompareAscending(a, b) == a - b

\* the comparator of the sort in renderNextCard: (a, b) => b - a
CardCompare(a, b) == b - a

\* Array.prototype.sort on a short array: insertion sort
RECURSIVE InsertCard(_, _, _)
InsertCard(arr, j, element) ==
    IF j = 0 THEN [arr EXCEPT ![1] = element]
    ELSE IF CardCompare(arr[j], element) > 0
    THEN InsertCard([arr EXCEPT ![j + 1] = arr[j]], j - 1, element)
    ELSE [arr EXCEPT ![j + 1] = element]

RECURSIVE SortCardsFrom(_, _)
SortCardsFrom(arr, i) ==
    IF i > Len(arr) THEN arr
    ELSE SortCardsFrom(InsertCard(arr, i - 1, arr[i]), i + 1)

\* this.state.cards.sort((a, b) => b - a)
SortCards(arr) == SortCardsFrom(arr, 2)

\* the cards the switch of renderNextCard has a case for
CardCases ==
    {WelcomeAndSetName, ShowingInstructions, ShowingAbout, ShowingBy,
     SavingSnapshotBeforeLoading, SavingSnapshot, ChangingName,
     ChangingDelegates, RemovingEmpties, ShowingSecurity}

\* .reduce((accumulator, cardFor) => ..., <></>): a card with a case replaces
\* what was rendered before it
RECURSIVE ReduceCards(_, _)
ReduceCards(list, accumulator) ==
    IF list = <<>> THEN accumulator
    ELSE ReduceCards(Tail(list),
                     IF Head(list) \in CardCases THEN Head(list)
                     ELSE accumulator)

\* App.renderNextCard() over this.state.cards = list: the array, sorted in
\* place, and the card rendered
renderNextCard(list) ==
    [cards |-> SortCards(list), card |-> ReduceCards(SortCards(list), NoCard)]

\* App.addCard(cardFor, to)
addCard(cardFor, to) == Append(to, cardFor)

\* App.removeCard(seekingCardFor, from)
removeCard(seekingCardFor, from) ==
    SelectSeq(from, LAMBDA foundCardFor : foundCardFor # seekingCardFor)

\* history: the handler that ran, its argument and, where a property below
\* asks for it, what it did
Handled(handler, arg, outcome) ==
    [name |-> handler, arg |-> arg, outcome |-> outcome]

\* the App after a handler that leaves this.state.cards as `list` and the
\* number of delegates as `delegates`: render() runs renderNextCard, and a
\* ValueCard that was not on the screen before is constructed with the value
\* it is given
Shown(list, delegates, handled) ==
    /\ event' = handled
    /\ cards' = renderNextCard(list).cards
    /\ presented' = renderNextCard(list).card
    /\ value' = IF renderNextCard(list).card # ChangingDelegates THEN ""
                ELSE IF presented = ChangingDelegates THEN value
                ELSE StringOf(delegates)

\* a handler of the cards that leaves snapshot, storage, sort orders and rows
\* alone
CardsBecome(list, handled) ==
    /\ Shown(list, allowed, handled)
    /\ UNCHANGED <<sortName, sortCount, typed>>
    /\ UNCHANGED snapshotVars
    /\ UNCHANGED storageVars

\* App.addCardState(cardFor): a menu command, the meeting name, the number
\* of delegates, the byline or the Remove Empties button
AddCardState(cardFor) ==
    /\ Len(cards) < MaxCards
    /\ typed = NoTyped
    /\ CardsBecome(addCard(cardFor, cards), Handled("addCardState", "", ""))

\* onSave() of the card on the screen, with no value (Close or Cancel):
\* App.removeCardState(cardFor)
CloseCard ==
    /\ presented # NoCard
    /\ typed = NoTyped
    /\ CardsBecome(removeCard(presented, cards),
                   Handled("removeCardState", "", ""))

\* the Credits button of the about card:
\* App.switchCardState(CardFor.ShowingAbout, CardFor.ShowingBy)
SwitchCardState ==
    /\ presented = ShowingAbout
    /\ typed = NoTyped
    /\ CardsBecome(addCard(ShowingBy, removeCard(ShowingAbout, cards)),
                   Handled("switchCardState", "", ""))

\* a click on the head of the name column
ClickNameHead ==
    /\ typed = NoTyped
    /\ sortName' = IF sortName # None THEN None ELSE Ascending
    /\ sortCount' = None
    /\ Shown(cards, allowed, Handled("name head", "", ""))
    /\ UNCHANGED typed
    /\ UNCHANGED snapshotVars
    /\ UNCHANGED storageVars

\* a click on the head of the count column
ClickCountHead ==
    /\ typed = NoTyped
    /\ sortName' = None
    /\ sortCount' = nextSortOrder(sortCount, -1)
    /\ Shown(cards, allowed, Handled("count head", "", ""))
    /\ UNCHANGED typed
    /\ UNCHANGED snapshotVars
    /\ UNCHANGED storageVars

\* new App(props) over a meeting without subcaucuses, after its first
\* render: the constructor computes the snapshot and asks for the first two
\* cards when no delegates are allowed yet
InitApp ==
    /\ phase = "computed"
    /\ name = ""
    /\ allowed \in 0..MaxTyped
    /\ seed = 1
    /\ revision = ""
    /\ subcaucuses = <<>>
    /\ issued = 0
    /\ participants = 0
    /\ totalDelegates = 0
    /\ participantsPerDelegate = NumZero
    /\ viabilityNumber = 0
    /\ viableParticipants = 0
    /\ delegateDivisor = NumZero
    /\ draws = <<>>
    /\ NoStorage
    /\ cards = renderNextCard(IF allowed # 0 THEN <<>>
                              ELSE initialCardState).cards
    /\ presented = renderNextCard(cards).card
    /\ value = ""
    /\ sortName = None
    /\ sortCount = None
    /\ typed = NoTyped
    /\ event = NoEvent

\* the cards and the heads of the list
NextApp ==
    \/ \E cardFor \in CardFors \ {WelcomeAndSetName} : AddCardState(cardFor)
    \/ CloseCard
    \/ SwitchCardState
    \/ ClickNameHead
    \/ ClickCountHead

SpecApp == InitApp /\ [][NextApp]_vars

\* -------------------------------------------------------------------- rows
\* The rows of the list (SubcaucusRow.tsx), the card that asks for the
\* number of delegates (ValueCard.tsx) and the handlers of the App that
\* change the subcaucuses.

MaxRows == 2        \* most subcaucuses in the list at a time

\* the names typed into a row
RowNames == {"", "A"}

\* TSMap.filter(callbackfn): every entry for which callbackfn(value, key)
\* returns false is deleted from the map itself; answers[i] is what the
\* callback returns for the entry at i
TSMapFilter(subs, answers) ==
    LET kept == SelectSeq([i \in DOMAIN subs |-> i], LAMBDA i : answers[i])
    IN  [k \in DOMAIN kept |-> subs[kept[k]]]

\* the callback of the filter in handleSubcaucusChange 'remove',
\* (subcaucus, key) => key != subcaucus.id: its parameter hides the
\* subcaucus handed to the handler
NotItself(subcaucus, key) == key # subcaucus.id

\* the callback of the filter in removeEmpties('all')
HasMembers(subcaucus, key) == subcaucus.count > 0

\* (mutation: a name alone does not keep a subcaucus)
HasMembersAndName(subcaucus, key) ==
    subcaucus.count > 0 /\ subcaucus.name # ""

\* the callback of the filter in removeEmpties('unnamed')
HasMembersOrName(subcaucus, key) ==
    subcaucus.count > 0 \/ subcaucus.name # ""

\* (mutation: a negative number is let through)
Unclamped(num) == num

\* if (num < 0) { num = 0 }
Clamped(num) == IF num < 0 THEN 0 ELSE num

\* the update object without any key
NoUpdate == [allowed |-> Absent, seed |-> Absent, name |-> ""]

\* subcalc.reviseSnapshot(update): the snapshot is revised
reviseSnapshot(snap, update) == RedistributeDelegates(Revised(snap, update))

\* the state after a handler that leaves the snapshot as `snap`, the cards
\* as `list` and the row in focus as `row`
RowsBecome(snap, list, row, handled) ==
    /\ SnapshotBecomes(snap)
    /\ issued' = IF MaxKey(snap.subcaucuses) > issued
                 THEN MaxKey(snap.subcaucuses) ELSE issued
    /\ phase' = "computed"
    /\ typed' = row
    /\ Shown(list, snap.allowed, handled)
    /\ UNCHANGED <<sortName, sortCount>>
    /\ UNCHANGED storageVars

\* the Add a Subcaucus button: snapshot.addSubcaucus(), setStateSubcaucuses()
AddRow ==
    /\ typed = NoTyped
    /\ Len(subcaucuses) < MaxRows
    /\ nextSubcaucusID(subcaucuses) \in Ids
    /\ RowsBecome(
          reviseSnapshot(
              [Snapshot EXCEPT !.subcaucuses =
                  Append(@, NewSubcaucus(nextSubcaucusID(subcaucuses), 0))],
              NoUpdate),
          cards, NoTyped, Handled("addSubcaucus", "", ""))

\* SubcaucusRow.handleName on the row at p: the name goes into the subcaucus
\* and into the state of the row
HandleName(p, text) ==
    /\ typed = NoTyped
    /\ p \in DOMAIN subcaucuses
    /\ subcaucuses[p].name # text
    /\ subcaucuses' = [subcaucuses EXCEPT ![p].name = text]
    /\ event' = Handled("handleName", "", "")
    /\ UNCHANGED <<name, allowed, seed, revision, participants,
                   totalDelegates, participantsPerDelegate, viabilityNumber,
                   viableParticipants, delegateDivisor, phase, issued, draws>>
    /\ UNCHANGED <<cards, presented, sortName, sortCount, value, typed>>
    /\ UNCHANGED storageVars

\* SubcaucusRow.handleCount on the row at p: the number typed goes into the
\* state of the row
HandleCount(p, text) ==
    /\ p \in DOMAIN subcaucuses
    /\ typed = NoTyped \/ typed.row = subcaucuses[p].id
    /\ typed' = [row |-> subcaucuses[p].id,
                 count |-> Clamped(NumberOf(text))]
    /\ event' = Handled("handleCount", text, "")
    /\ UNCHANGED <<cards, presented, sortName, sortCount, value>>
    /\ UNCHANGED snapshotVars
    /\ UNCHANGED storageVars

\* the 'recalc' a row sends: App.handleSubcaucusChange answers with
\* setStateSubcaucuses()
Recalc(snap) == reviseSnapshot(snap, NoUpdate)

\* SubcaucusRow.handleCountBlur on the row at p, the one in focus
HandleCountBlur(p) ==
    /\ p \in DOMAIN subcaucuses
    /\ typed # NoTyped
    /\ typed.row = subcaucuses[p].id
    /\ IF subcaucuses[p].count # typed.count
       THEN RowsBecome(
                Recalc([Snapshot EXCEPT !.subcaucuses[p].count = typed.count]),
                cards, NoTyped, Handled("handleCountBlur", "", "recalc"))
       ELSE /\ typed' = NoTyped
            /\ event' = Handled("handleCountBlur", "", "")
            /\ UNCHANGED <<cards, presented, sortName, sortCount, value>>
            /\ UNCHANGED snapshotVars
            /\ UNCHANGED storageVars

\* App.handleSubcaucusChange(subcaucus, 'remove') for the subcaucus at p
RemoveRow(p) ==
    /\ typed = NoTyped
    /\ p \in DOMAIN subcaucuses
    /\ RowsBecome(
          reviseSnapshot(
              [Snapshot EXCEPT !.subcaucuses =
                 TSMapFilter(@, [i \in DOMAIN @ |-> NotItself(@[i], @[i].id)])],
              NoUpdate),
          cards, NoTyped,
          Handled("remove", StringOf(subcaucuses[p].id), ""))

\* `subset` of App.removeEmpties
Subsets == {"all", "unnamed"}

\* App.removeEmpties: if (subset == 'all'), the subcaucuses without
\* members are filtered out and the snapshot is revised
removeEmptiesAll(snap, subset) ==
    IF subset = "all"
    THEN reviseSnapshot(
             [snap EXCEPT !.subcaucuses =
                 TSMapFilter(@, [i \in DOMAIN @ |-> HasMembers(@[i], @[i].id)])],
             NoUpdate)
    ELSE snap

\* App.removeEmpties: if (subset == 'unnamed'), the subcaucuses with neither
\* members nor a name are filtered out
removeEmptiesUnnamed(snap, subset) ==
    IF subset = "unnamed"
    THEN [snap EXCEPT !.subcaucuses =
                 TSMapFilter(@, [i \in DOMAIN @ |-> HasMembersOrName(@[i], @[i].id)])]
    ELSE snap

\* a button of the card RemovingEmpties: App.removeEmpties(subset), that is
\* the two filters, removeCardState(RemovingEmpties) and reviseSnapshot();
\* the event records how many subcaucuses went
RemoveEmpties(subset) ==
    /\ typed = NoTyped
    /\ presented = RemovingEmpties
    /\ \E emptied \in {removeEmptiesAll(Snapshot, subset)} :
       \E snap \in {reviseSnapshot(removeEmptiesUnnamed(emptied, subset),
                                   NoUpdate)} :
          RowsBecome(
              snap, removeCard(RemovingEmpties, cards), NoTyped,
              Handled("removeEmpties", subset,
                      StringOf(Len(subcaucuses) - Len(snap.subcaucuses))))

\* ValueCard.handleChange of the card ChangingDelegates, of type
\* 'positive integer'
ValueChange(text) ==
    /\ typed = NoTyped
    /\ presented = ChangingDelegates
    /\ value' = StringOf(Clamped(NumberOf(text)))
    /\ event' = Handled("handleChange", "", "")
    /\ UNCHANGED <<cards, presented, sortName, sortCount, typed>>
    /\ UNCHANGED snapshotVars
    /\ UNCHANGED storageVars

\* the Enter key in the card ChangingDelegates: onSave(this.state.value),
\* which takes the card away and calls setStateAllowed(Number(value))
ValueSave ==
    /\ typed = NoTyped
    /\ presented = ChangingDelegates
    /\ RowsBecome(
          reviseSnapshot(Snapshot, [NoUpdate EXCEPT !.allowed = NumberOf(value)]),
          removeCard(ChangingDelegates, cards), NoTyped,
          Handled("onSave", "", ""))

\* App.handleChange('allowed') on an input element
HandleChange(text) ==
    /\ typed = NoTyped
    /\ RowsBecome(
          reviseSnapshot(Snapshot,
                         [NoUpdate EXCEPT !.allowed = Clamped(NumberOf(text))]),
          cards, NoTyped, Handled("handleChange allowed", "", ""))

\* the list, its rows and the two cards that belong to them
NextRows ==
    \/ AddRow
    \/ \E p \in 1..MaxRows, text \in RowNames : HandleName(p, text)
    \/ \E p \in 1..MaxRows, text \in Texts : HandleCount(p, text)
    \/ \E p \in 1..MaxRows : HandleCountBlur(p)
    \/ \E p \in 1..MaxRows : RemoveRow(p)
    \/ \E subset \in Subsets : RemoveEmpties(subset)
    \/ \E text \in Texts : ValueChange(text)
    \/ ValueSave
    \/ \E text \in Texts : HandleChange(text)
    \/ \E cardFor \in {ChangingDelegates, RemovingEmpties} :
          AddCardState(cardFor)
    \/ CloseCard

SpecRows == InitApp /\ [][NextRows]_vars

\* the last operation ended with a run of redistributeDelegates
Computed == phase \in {"computed", "recomputed"}

TypeOK ==
    /\ allowed \in Alloweds
    /\ seed \in Seeds
    /\ Len(subcaucuses) <= MaxSubs

\* ================================================================== claims
\* What the claims speak of, read off the inputs alone.

\* the sum of all counts
CountSum == SumSeq([i \in DOMAIN subcaucuses |-> subcaucuses[i].count])

\* the sum over all groups of baseDelegates + remainderDelegates
SeatSum == SumSeq([i \in DOMAIN subcaucuses |-> TotalOf(subcaucuses[i])])

BaseSum == SumSeq([i \in DOMAIN subcaucuses |-> subcaucuses[i].baseDelegates])

\* the smallest v with v * allowed >= the sum of counts; with allowed = 0
\* no count reaches it
Threshold ==
    IF allowed = 0 THEN CountSum + 1
    ELSE CHOOSE v \in 0..CountSum :
            /\ v * allowed >= CountSum
            /\ \A w \in 0..(v - 1) : w * allowed < CountSum

\* the members of the groups that reach the threshold
ViablePool ==
    SumSeq([i \in DOMAIN subcaucuses |->
              IF subcaucuses[i].count >= Threshold
              THEN subcaucuses[i].count ELSE 0])

Positions == DOMAIN subcaucuses

\* C1 (conservation): after a computation with allowed > 0 the seats of all
\* groups add up to allowed when some group is viable (the viable pool of the
\* current counts is not empty) and to 0 when none is.
Conservation ==
    (Computed /\ allowed > 0) =>
        SeatSum = (IF ViablePool > 0 THEN allowed ELSE 0)

\* C1 witness: a computation that handed out a leftover seat while a group
\* with members stayed below the threshold
ConservationWitness ==
    /\ Computed /\ allowed > 0 /\ SeatSum = allowed
    /\ \E p \in Positions : subcaucuses[p].remainderDelegates = 1
    /\ \E p \in Positions :
          subcaucuses[p].count > 0 /\ subcaucuses[p].count < Threshold

\* C3 (as claimed): after a recomputation the aggregate totalDelegates is
\* the sum of the groups' baseDelegates + remainderDelegates, and so 0 after
\* an early exit.
TotalIsSeatSum == Computed => totalDelegates = SeatSum

\* C8 (no seat without viability): after a computation every group whose
\* count is below viabilityNumber has no base and no remainder delegate, and
\* a group without members has none either.
NoSeatWithoutViability ==
    Computed =>
        \A p \in Positions :
            (subcaucuses[p].count < viabilityNumber \/ subcaucuses[p].count = 0)
                => /\ subcaucuses[p].baseDelegates = 0
                   /\ subcaucuses[p].remainderDelegates = 0

\* C8 witness: a group with members below the viability number, next to a
\* group that holds seats
NoSeatWithoutViabilityWitness ==
    /\ Computed
    /\ \E p, q \in Positions :
          /\ subcaucuses[p].count > 0
          /\ subcaucuses[p].count < viabilityNumber
          /\ TotalOf(subcaucuses[p]) = 0
          /\ TotalOf(subcaucuses[q]) > 0

\* C9 (viability threshold): after a computation with allowed > 0 and some
\* member, participants is the sum of the counts, viabilityNumber the least
\* v with v * allowed >= participants, viableParticipants the sum of the
\* counts of the groups with count >= viabilityNumber, and when that sum is
\* positive exactly those groups hold base delegates.
ViabilityThreshold ==
    (Computed /\ allowed > 0 /\ CountSum > 0) =>
        /\ participants = CountSum
        /\ viabilityNumber * allowed >= participants
        /\ (viabilityNumber - 1) * allowed < participants
        /\ viableParticipants =
              SumSeq([i \in Positions |->
                        IF subcaucuses[i].count >= viabilityNumber
                        THEN subcaucuses[i].count ELSE 0])
        /\ viableParticipants > 0 =>
              \A p \in Positions :
                  subcaucuses[p].baseDelegates > 0
                      <=> subcaucuses[p].count >= viabilityNumber

\* C9 witness: participants / allowed is no whole number, one group is
\* viable and one with members is not
ViabilityThresholdWitness ==
    /\ Computed /\ allowed > 0
    /\ participants = CountSum
    /\ participants % allowed # 0
    /\ \E p, q \in Positions :
          /\ subcaucuses[p].count >= viabilityNumber
          /\ subcaucuses[q].count > 0
          /\ subcaucuses[q].count < viabilityNumber

\* the record of what a computation derives for the group at p
DerivedOf(s) ==
    [baseDelegates |-> s.baseDelegates, remainder |-> s.remainder,
     remainderDelegates |-> s.remainderDelegates,
     reportTosses |-> s.reportTosses, tossLog |-> s.tossLog]

\* the aggregate fields of a snapshot record
AggregatesOf(snap) ==
    <<snap.participants, snap.totalDelegates, snap.participantsPerDelegate,
      snap.viabilityNumber, snap.viableParticipants, snap.delegateDivisor>>

\* the same groups held in the order perm (a bijection on the positions)
Reordered(perm) == [i \in Positions |-> subcaucuses[perm[i]]]

\* what the computation gives the group with this id in a snapshot record
OutcomeOf(snap, id) ==
    LET s == snap.subcaucuses[CHOOSE i \in DOMAIN snap.subcaucuses :
                                  snap.subcaucuses[i].id = id]
    IN  <<s.baseDelegates, s.remainderDelegates, s.reportTosses>>

\* C2 (as claimed): a computation over the same allowed, seed and id-to-count
\* mapping with the groups held in any other insertion order gives every
\* group the same baseDelegates, remainderDelegates and reportTosses and the
\* same aggregate fields.
OrderIndependent ==
    Computed =>
        \A perm \in Permutations(Positions) :
            LET other == RedistributeDelegates(
                            [Snapshot EXCEPT !.subcaucuses = Reordered(perm)])
            IN  /\ AggregatesOf(other) = AggregatesOf(Snapshot)
                /\ \A p \in Positions :
                      OutcomeOf(other, subcaucuses[p].id)
                          = OutcomeOf(Snapshot, subcaucuses[p].id)

\* C4 (as claimed): every run of redistributeDelegates, also one that stops
\* at allowed = 0, resets the groups first: what the groups hold afterwards
\* is what the same run leaves behind when it starts from groups that carry
\* no derived value at all.
ResetComesFirst ==
    Computed =>
        subcaucuses =
            RedistributeDelegates(
                [Snapshot EXCEPT !.subcaucuses =
                    [i \in Positions |->
                        NewSubcaucus(subcaucuses[i].id, subcaucuses[i].count)]]
            ).subcaucuses

\* C5 (idempotence): a second redistributeDelegates right after a
\* computation, with nothing changed in between, leaves every derived field
\* of every group and every aggregate field as the first left them.
Idempotence ==
    [][(Computed /\ phase' = "recomputed") =>
          /\ AggregatesOf(Snapshot') = AggregatesOf(Snapshot)
          /\ Len(subcaucuses') = Len(subcaucuses)
          /\ \A p \in Positions :
                DerivedOf(subcaucuses'[p]) = DerivedOf(subcaucuses[p])]_vars

\* C5 witness: the second of two computations in a row, with a coin toss
\* logged and a leftover seat handed out
IdempotenceWitness ==
    /\ phase = "recomputed"
    /\ \E p \in Positions :
          /\ subcaucuses[p].tossLog # <<>>
          /\ subcaucuses[p].remainderDelegates = 1

\* the snapshot computed again after the count at p is changed to c
WithCount(p, c) ==
    RedistributeDelegates([Snapshot EXCEPT !.subcaucuses[p].count = c])

TiedAt(p) ==
    \E q \in Positions :
        /\ q # p
        /\ subcaucuses[q].count >= Threshold
        /\ subcaucuses[q].remainder = subcaucuses[p].remainder

\* the snapshot computed again under another seed
WithSeed(sd) == RedistributeDelegates([Snapshot EXCEPT !.seed = sd])

\* C7 (seed sensitivity): computing again under any other seed gives the
\* same aggregate totalDelegates, and the same number of delegates to every
\* group whose remainder no other viable group shares.
SeedSensitivity ==
    Computed =>
        \A sd \in Seeds :
            /\ WithSeed(sd).totalDelegates = totalDelegates
            /\ \A p \in Positions :
                  ~TiedAt(p) =>
                      TotalOf(WithSeed(sd).subcaucuses[p])
                          = TotalOf(subcaucuses[p])

\* C7 witness: another seed moves the contested seat between two tied
\* groups while a third group, tied with nobody, keeps what it has
SeedSensitivityWitness ==
    /\ Computed /\ allowed > 0
    /\ \E sd \in Seeds : \E p, q \in Positions :
          /\ TiedAt(p)
          /\ TotalOf(WithSeed(sd).subcaucuses[p]) # TotalOf(subcaucuses[p])
          /\ ~TiedAt(q)
          /\ subcaucuses[q].count > 0

\* the groups holding a remainder delegate
Seated == {p \in Positions : subcaucuses[p].remainderDelegates = 1}

\* leftover seats went by remainder: each group has 0 or 1, as many groups
\* have one as seats were left after the base delegates, and no viable group
\* without one has a greater remainder than a group with one
LeftoversInOrder ==
    /\ \A p \in Positions : subcaucuses[p].remainderDelegates \in {0, 1}
    /\ Cardinality(Seated) = allowed - BaseSum
    /\ \A p \in Positions \ Seated : \A q \in Seated :
          subcaucuses[p].count >= Threshold
              => ~NumLess(subcaucuses[q].remainder, subcaucuses[p].remainder)

\* C10 (as claimed): after a computation the leftover seats went by
\* remainder.
LeftoversFollowRemainders == Computed => LeftoversInOrder

\* C10 (amended): after a computation with allowed > 0 in which some group
\* is viable the leftover seats went by remainder.
LeftoversFollowRemaindersWhenViable ==
    (Computed /\ allowed > 0 /\ ViablePool > 0) => LeftoversInOrder

\* C10 witness: a viable group without a leftover seat whose remainder is
\* smaller than that of a group with one
LeftoversWitness ==
    /\ Computed /\ allowed > 0 /\ ViablePool > 0
    /\ \E p \in Positions \ Seated : \E q \in Seated :
          /\ subcaucuses[p].count >= Threshold
          /\ NumLess(subcaucuses[p].remainder, subcaucuses[q].remainder)

\* the viable groups' ids in map order, shuffled under the snapshot's seed:
\* the pre-ranking of the computation that produced this state
PreRanking ==
    LET vSubs == ViablePositions(subcaucuses, Threshold)
    IN  Shuffle([k \in DOMAIN vSubs |-> subcaucuses[vSubs[k]].id], seed)

\* p and q are two viable groups with exactly the same remainder
TiedPair(p, q) ==
    /\ p # q
    /\ subcaucuses[p].count >= Threshold
    /\ subcaucuses[q].count >= Threshold
    /\ subcaucuses[p].remainder = subcaucuses[q].remainder

\* C11 (tie-break by pre-ranking): after a computation, of two viable groups
\* with exactly equal remainder of which only one holds a remainder seat, the
\* one holding it stands earlier in the seeded shuffle of the viable ids,
\* whatever their places in the map and whichever id is larger.
TieBreakByPreRanking ==
    (Computed /\ allowed > 0 /\ ViablePool > 0) =>
        \A p \in Seated : \A q \in Positions \ Seated :
            TiedPair(p, q) =>
                IndexOf(PreRanking, subcaucuses[p].id)
                    < IndexOf(PreRanking, subcaucuses[q].id)

\* C11 witness: the tied group that got the seat has the larger id and the
\* later place in the map
TieBreakWitness ==
    /\ Computed /\ allowed > 0 /\ ViablePool > 0
    /\ \E p \in Seated : \E q \in Positions \ Seated :
          /\ TiedPair(p, q)
          /\ subcaucuses[p].id > subcaucuses[q].id
          /\ p > q

\* the remainder of the viable group at p is shared by a group with a
\* remainder seat and by a viable group without one
StraddlesCutoff(p) ==
    /\ subcaucuses[p].count >= Threshold
    /\ \E q \in Seated : subcaucuses[q].remainder = subcaucuses[p].remainder
    /\ \E r \in Positions \ Seated :
          /\ subcaucuses[r].count >= Threshold
          /\ subcaucuses[r].remainder = subcaucuses[p].remainder

\* C12 (as claimed): after a computation a group has reportTosses exactly
\* when it is viable and its remainder is that of a group that got a
\* remainder seat and of a viable group that did not; ties among winners
\* only, ties among losers only and computations without a leftover seat
\* flag nobody.
AuditFlag ==
    (Computed /\ allowed > 0) =>
        \A p \in Positions :
            subcaucuses[p].reportTosses <=> (ViablePool > 0 /\ StraddlesCutoff(p))

\* C13 (as claimed): every addSubcaucus gives the new group an id strictly
\* greater than every id a group of this snapshot was given before, ids of
\* groups deleted since included.
IdsNeverReused ==
    [][phase' = "added" =>
          subcaucuses'[Len(subcaucuses')].id > issued]_vars

\* the snapshot a computation leaves when its inputs are those of this one
\* with the values the update supplies, its groups reset
ComputedWith(update) ==
    RedistributeDelegates(
        [Snapshot EXCEPT
            !.revision = "",
            !.allowed = IF update.allowed # Absent THEN update.allowed ELSE @,
            !.seed = IF update.seed # Absent THEN update.seed ELSE @,
            !.subcaucuses = ResetAll(@)])

\* C14 (as claimed): revise with an update that supplies allowed (0
\* included) or seed (0 included) leaves allowed / seed at the supplied
\* value, revision at "", and the groups' derived fields and the aggregate
\* fields at what a computation over the updated inputs gives.
ReviseAppliesUpdate ==
    [][\A update \in Updates :
          Revise(update) =>
              /\ update.allowed # Absent => allowed' = update.allowed
              /\ update.seed # Absent => seed' = update.seed
              /\ revision' = ""
              /\ subcaucuses' = ComputedWith(update).subcaucuses
              /\ AggregatesOf(Snapshot') = AggregatesOf(ComputedWith(update))
      ]_vars

\* C15 (no-viable-group exit): after a computation with allowed > 0 and some
\* member but no group reaching the viability number, participants and
\* viabilityNumber are those of the current counts, viableParticipants is 0
\* and no group has a base or a remainder delegate.
NoViableGroupExit ==
    (Computed /\ allowed > 0 /\ CountSum > 0 /\ ViablePool = 0) =>
        /\ participants = CountSum
        /\ viabilityNumber = Threshold
        /\ viableParticipants = 0
        /\ \A p \in Positions :
              /\ subcaucuses[p].baseDelegates = 0
              /\ subcaucuses[p].remainderDelegates = 0

\* C15 witness: no group is viable any more in a snapshot whose earlier
\* computation had handed out delegates
NoViableGroupWitness ==
    /\ Computed /\ allowed > 0 /\ CountSum > 0 /\ ViablePool = 0
    /\ totalDelegates > 0
    /\ \E p \in Positions : subcaucuses[p].count > 1

\* floor(x * 2^20) for a double 0 <= x < 1
Scaled(x) ==
    IF x = NumZero \/ x.scale > 74 THEN 0
    ELSE x.hi \div Pow2[x.scale - 47]

\* the double x is the fraction n / d (0 <= n < d) to twenty binary places
IsFraction(x, n, d) ==
    LET exact == (n * Pow2[20]) \div d
    IN  /\ Scaled(x) - exact <= 1
        /\ exact - Scaled(x) <= 1

\* C16 (as claimed): after a computation with a viable group, every viable
\* group has baseDelegates = floor(count * allowed / viableParticipants) and
\* as remainder what count * allowed / viableParticipants has above it, a
\* value in [0, 1); the base delegates add up to no more than allowed.
ProportionalStep ==
    (Computed /\ allowed > 0 /\ ViablePool > 0) =>
        /\ \A p \in Positions :
              subcaucuses[p].count >= Threshold =>
                  LET share == subcaucuses[p].count * allowed
                      s == subcaucuses[p]
                  IN  /\ s.baseDelegates = share \div ViablePool
                      /\ NumLess(s.remainder, NumOfInt(1))
                      /\ IsFraction(s.remainder, share % ViablePool, ViablePool)
        /\ BaseSum <= allowed

\* the counts of the groups in map order
CountsNow == [i \in Positions |-> subcaucuses[i].count]

\* C17 (scenario A): groups A:10, B:0, C:100, D:1, E:0 with 10 delegates
\* allowed give, under any seed, participants 111, viabilityNumber 12,
\* viableParticipants 100, delegateDivisor 10, C 10 base delegates with
\* remainder 0 and no remainder seat, every other group no delegate, and
\* totalDelegates 10.
ScenarioA ==
    (Computed /\ allowed = 10 /\ CountsNow = <<10, 0, 100, 1, 0>>) =>
        /\ participants = 111
        /\ viabilityNumber = 12
        /\ viableParticipants = 100
        /\ delegateDivisor = NumOfInt(10)
        /\ subcaucuses[3].baseDelegates = 10
        /\ subcaucuses[3].remainder = NumZero
        /\ subcaucuses[3].remainderDelegates = 0
        /\ \A p \in {1, 2, 4, 5} : TotalOf(subcaucuses[p]) = 0
        /\ totalDelegates = 10

\* C17 witness: scenario A computed under a seed other than the first
ScenarioAWitness ==
    /\ Computed /\ allowed = 10 /\ CountsNow = <<10, 0, 100, 1, 0>>
    /\ seed = MaxSeed
    /\ phase = "computed"
    /\ totalDelegates = 10

\* ------------------------------------------------------------ stored copies
\* what a snapshot shows: its own fields and the entries of its map
SnapshotView(snapshot) ==
    [created |-> snapshot.created, revised |-> snapshot.revised,
     revision |-> snapshot.revision,
     subcaucuses |-> objects[snapshot.subcaucuses]]

\* what the meetings map shows
MeetingsView ==
    [k \in DOMAIN meetings |->
        [current |-> SnapshotView(meetings[k].current),
         snapshots |-> [t \in DOMAIN meetings[k].snapshots |->
                            SnapshotView(meetings[k].snapshots[t])]]]

\* the caller adds, deletes or changes the count of a subcaucus of the
\* snapshot it holds
HeldEdit ==
    \/ \E id \in StoredIds : HeldAddSubcaucus(id)
    \/ \E id \in StoredIds : HeldDeleteSubcaucus(id)
    \/ \E id \in StoredIds, count \in StoredCounts : HeldSetCount(id, count)

\* C18 (as claimed): a snapshot handed out or taken in by the storage shares
\* nothing with the one in the storage: no edit of the subcaucuses of the
\* snapshot the caller holds shows through a snapshot of the meetings map.
CopyHasNoLingeringReferences == [][HeldEdit => MeetingsView' = MeetingsView]_vars

\* what deleteSnapshot(snapshot) may do
DeleteSnapshotEffect(snapshot) ==
    LET key == meetingKey(snapshot.created)
    IN  IF snapshot.revision = ""
        THEN /\ meetings' = meetings
             /\ MeetingsView' = MeetingsView
             /\ localStorage' = localStorage
        ELSE /\ DOMAIN meetings' = DOMAIN meetings
             /\ \A k \in DOMAIN meetings :
                    /\ MeetingsView'[k].current = MeetingsView[k].current
                    /\ k # key => MeetingsView'[k] = MeetingsView[k]
                    /\ k = key =>
                        /\ DOMAIN meetings'[k].snapshots =
                            DOMAIN meetings[k].snapshots \ {snapshot.revised}
                        /\ \A t \in DOMAIN meetings'[k].snapshots :
                                MeetingsView'[k].snapshots[t] =
                                    MeetingsView[k].snapshots[t]

\* C19: deleteSnapshot with a snapshot whose revision is "" changes neither
\* the meetings map nor localStorage; with a saved snapshot it removes the
\* entry under the snapshot's revised timestamp from the snapshots of the
\* snapshot's meeting and nothing else: every current snapshot, every other
\* saved snapshot and every other meeting stay as they were.
DeleteSnapshotSparesCurrent ==
    [][call'.name = "deleteSnapshot" =>
        \A snapshot \in SnapshotArgs :
            DeleteSnapshot(snapshot) => DeleteSnapshotEffect(snapshot)]_vars

\* a saved snapshot has just been removed while another saved snapshot is
\* there
DeleteSnapshotWitness ==
    /\ call = Called("deleteSnapshot", "removed")
    /\ \E k \in DOMAIN meetings : DOMAIN meetings[k].snapshots # {}

\* what getSnapshotCopy(key, timestamp) may do to the current meeting key
GetSnapshotCopyEffect(key, timestamp) ==
    LET from == IF key = NoKey THEN currentMeetingKey ELSE key
        missing == \/ from = NoKey
                   \/ from \notin DOMAIN meetings
                   \/ /\ timestamp # NoTimestamp
                      /\ timestamp \notin DOMAIN meetings[from].snapshots
    IN  /\ missing => held' = Undefined
        /\ IF held' = Undefined
           THEN currentMeetingKey' = currentMeetingKey
           ELSE /\ currentMeetingKey' = from
                /\ from \in DOMAIN meetings
                /\ held'.created = meetings[from].created

\* C20: getSnapshotCopy returns undefined without a current meeting key, for
\* an unknown meeting key and for a timestamp without a snapshot, and then
\* leaves currentMeetingKey as it was; when it returns a snapshot,
\* currentMeetingKey is the key of the meeting the snapshot was read from.
CurrentKeyOnlyOnSuccess ==
    [][call'.name = "getSnapshotCopy" =>
        \A key \in Timestamps \cup {NoKey},
           timestamp \in Timestamps \cup {NoTimestamp} :
            GetSnapshotCopy(key, timestamp) =>
                GetSnapshotCopyEffect(key, timestamp)]_vars

\* a retrieval has just failed for an unknown meeting key while a meeting of
\* the map is the current one
CurrentKeyWitness ==
    /\ call = Called("getSnapshotCopy", "no meeting")
    /\ held = Undefined
    /\ currentMeetingKey \in DOMAIN meetings

\* the viable groups: the places in the map of the groups that reach the
\* threshold
ViableNow == {p \in Positions : subcaucuses[p].count >= Threshold}

\* n, n - 1, ..., 1
CountDown(n) == [k \in 1..n |-> n + 1 - k]

\* C22 (shuffle draws): a computation that reaches the pre-ranking step with
\* n viable groups asks randomUpTo exactly n times, with the bounds n, n - 1,
\* ..., 1 in that order, whether or not remainders tie, and the shuffled list
\* is a permutation of the viable ids; a computation that exits early asks
\* for no draw.
ShuffleDraws ==
    Computed =>
        IF allowed > 0 /\ ViablePool > 0
        THEN /\ draws = CountDown(Cardinality(ViableNow))
             /\ Len(PreRanking) = Cardinality(ViableNow)
             /\ {PreRanking[k] : k \in DOMAIN PreRanking}
                    = {subcaucuses[p].id : p \in ViableNow}
        ELSE draws = <<>>

\* C22 witness: a computation over two viable groups whose remainders differ
\* has drawn twice
ShuffleDrawsWitness ==
    /\ Computed /\ allowed > 0 /\ ViablePool > 0
    /\ Len(draws) = 2
    /\ \A p, q \in ViableNow :
          p # q => subcaucuses[p].remainder # subcaucuses[q].remainder

\* the tosses the group at p has logged against the group at q, in order
TossesOf(p, q) ==
    SelectSeq(subcaucuses[p].tossLog,
              LAMBDA t : t.against = subcaucuses[q].id)

\* p stands before q in the pre-ranking
RankedBefore(p, q) ==
    IndexOf(PreRanking, subcaucuses[p].id)
        < IndexOf(PreRanking, subcaucuses[q].id)

\* the viable groups in the order the remainder sort leaves them in
SortedNow ==
    SortByRemainder(ViablePositions(subcaucuses, Threshold), subcaucuses,
                    PreRanking).arr

\* C23 (toss log): after a computation the tosses of any two groups against
\* each other pair up, one on each side for every comparison, with exactly
\* one of the two marked won, the one of the group earlier in the
\* pre-ranking; only viable groups with equal remainders have tosses against
\* each other; and the sorted order is the one the remainders and the
\* pre-ranking alone decide.
TossLogSymmetric ==
    (Computed /\ allowed > 0) =>
        /\ \A p \in Positions : \A k \in DOMAIN subcaucuses[p].tossLog :
              \E q \in Positions \ {p} :
                  subcaucuses[p].tossLog[k].against = subcaucuses[q].id
        /\ \A p, q \in Positions :
              p # q =>
                  /\ Len(TossesOf(p, q)) = Len(TossesOf(q, p))
                  /\ \A k \in DOMAIN TossesOf(p, q) :
                        /\ TossesOf(p, q)[k].won # TossesOf(q, p)[k].won
                        /\ TossesOf(p, q)[k].won <=> RankedBefore(p, q)
                  /\ TossesOf(p, q) # <<>> => (ViablePool > 0 /\ TiedPair(p, q))
        /\ ViablePool > 0 =>
              \A i, j \in DOMAIN SortedNow :
                  i < j =>
                      \/ NumLess(subcaucuses[SortedNow[j]].remainder,
                                 subcaucuses[SortedNow[i]].remainder)
                      \/ /\ subcaucuses[SortedNow[j]].remainder
                                = subcaucuses[SortedNow[i]].remainder
                         /\ RankedBefore(SortedNow[i], SortedNow[j])

\* C23 witness: a toss between two tied groups, won by the one that stands
\* later in the map and has the larger id
TossLogWitness ==
    /\ Computed /\ allowed > 0
    /\ \E p, q \in Positions :
          /\ p > q
          /\ subcaucuses[p].id > subcaucuses[q].id
          /\ TossesOf(p, q) # <<>>
          /\ TossesOf(p, q)[1].won

\* the seats left after the base delegates
Leftover == allowed - BaseSum

\* the viable groups with a remainder above 0
WithRemainder == {p \in ViableNow : subcaucuses[p].remainder # NumZero}

\* C29 (as claimed): after a computation with a viable group the seats left
\* after the base delegates are none or fewer than the viable groups with a
\* remainder above 0, every seat is handed out, and no group with remainder
\* 0 holds a remainder seat.
SomeoneLeftToRefuse ==
    (Computed /\ allowed > 0 /\ ViablePool > 0) =>
        /\ Leftover = 0 \/ Leftover < Cardinality(WithRemainder)
        /\ totalDelegates = allowed
        /\ \A p \in Seated : subcaucuses[p].remainder # NumZero

\* what a snapshot is given: its own inputs and, in map order, the id, name
\* and count of every subcaucus
InputsOf(snap) ==
    [name |-> snap.name, allowed |-> snap.allowed, seed |-> snap.seed,
     revision |-> snap.revision,
     subcaucuses |-> [i \in DOMAIN snap.subcaucuses |->
                        [id |-> snap.subcaucuses[i].id,
                         name |-> snap.subcaucuses[i].name,
                         count |-> snap.subcaucuses[i].count]]]

\* C30 (inputs untouched): redistributeDelegates, run on the snapshot in
\* any state it can be in, leaves allowed, seed, name, revision, the
\* subcaucuses and their order, and every id, name and count as they were,
\* on the early exits as on the full path.
ComputationKeepsInputs ==
    InputsOf(RedistributeDelegates(Snapshot)) = InputsOf(Snapshot)

\* C30 witness: a named snapshot after a computation whose remainder sort
\* put a later group of the map before an earlier one
ComputationKeepsInputsWitness ==
    /\ Computed /\ allowed > 0 /\ ViablePool > 0
    /\ name # ""
    /\ \E i, j \in DOMAIN SortedNow : i < j /\ SortedNow[i] > SortedNow[j]

\* C28 (current meeting key): in every state of the storage the current
\* meeting key is empty or the key of a meeting in the meetings map, and
\* right after the current meeting was deleted it is empty.
CurrentKeyValid ==
    /\ currentMeetingKey = NoKey \/ currentMeetingKey \in DOMAIN meetings
    /\ call = Called("deleteMeeting", "current") => currentMeetingKey = NoKey

\* C28 witness: the current meeting has just been deleted while another
\* meeting is still in the map
CurrentKeyValidWitness ==
    /\ call = Called("deleteMeeting", "current")
    /\ meetings # EmptyTSMap

\* the lowest value in a list of cards, NoCard for the empty list
Lowest(list) ==
    IF list = <<>> THEN NoCard
    ELSE CHOOSE c \in {list[i] : i \in DOMAIN list} :
            \A i \in DOMAIN list : c <= list[i]

\* C21 (card priority): the card on the screen is the waiting card that
\* comes first in CardFor, nothing when no card waits; and whichever card is
\* added to the waiting ones at the end of the array, again or for the first
\* time, renderNextCard presents the first in CardFor of them all.
CardPriority ==
    /\ presented = Lowest(cards)
    /\ \A cardFor \in CardFors :
          renderNextCard(addCard(cardFor, cards)).card
              = Lowest(addCard(cardFor, cards))

\* C21 witness: an addCardState has left three cards waiting, one of them
\* twice, and the one on the screen is the lowest of them
CardPriorityWitness ==
    /\ event.name = "addCardState"
    /\ Len(cards) = 3
    /\ cards[1] = cards[2]
    /\ cards[3] < cards[2]
    /\ presented = cards[3]

\* C27 (sort orders cycle): from every sort order and in both directions
\* nextSortOrder gives a sort order other than the current one, three steps
\* in one direction come back to the start, a step back undoes a step
\* forward, and the order of the count column is always one of the three.
SortOrderCycles ==
    /\ sortCount \in SortOrders
    /\ \A order \in SortOrders : \A direction \in {1, -1} :
          /\ nextSortOrder(order, direction) \in SortOrders
          /\ nextSortOrder(order, direction) # order
          /\ nextSortOrder(nextSortOrder(nextSortOrder(order, direction),
                                         direction), direction) = order
    /\ \A order \in SortOrders :
          /\ nextSortOrder(nextSortOrder(order, 1), -1) = order
          /\ nextSortOrder(nextSortOrder(order, -1), 1) = order

\* C27 witness: two clicks on the head of the count column have taken the
\* order from None over Descending to Ascending
SortOrderWitness ==
    /\ event.name = "count head"
    /\ sortCount = Ascending

\* the ids of the subcaucuses of a list
IdsOf(subs) == {subs[i].id : i \in DOMAIN subs}

\* C24 (the 'remove' row action removes only its target): a step of
\* handleSubcaucusChange(s, 'remove') leaves the snapshot with the
\* subcaucuses it had except the one whose id is s.id, each with the name
\* and the count it had, and with the delegates recomputed.
RemoveOnlyTarget ==
    [][event'.name = "remove" =>
          /\ IdsOf(subcaucuses') = IdsOf(subcaucuses) \ {NumberOf(event'.arg)}
          /\ \A i \in DOMAIN subcaucuses : \A j \in DOMAIN subcaucuses' :
                subcaucuses[i].id = subcaucuses'[j].id =>
                    /\ subcaucuses'[j].name = subcaucuses[i].name
                    /\ subcaucuses'[j].count = subcaucuses[i].count
          /\ phase' = "computed"]_vars

\* 'remove' on one of two subcaucuses has left the snapshot without any
RemovedThemAll ==
    /\ event.name = "remove"
    /\ issued = 2
    /\ subcaucuses = <<>>

\* what a user has put into the subcaucuses of a list, in the order of the map
EntriesOf(subs) ==
    [i \in DOMAIN subs |-> <<subs[i].id, subs[i].name, subs[i].count>>]

\* an entry <<id, name, count>> that removeEmpties(subset) is not asked to
\* remove
NotAskedFor(entry, subset) ==
    IF subset = "all" THEN entry[3] # 0
    ELSE ~(entry[3] = 0 /\ entry[2] = "")

\* a step of removeEmpties leaves the subcaucuses it is not asked to remove,
\* as they were and in their order
KeepsTheOthers ==
    event'.name = "removeEmpties" =>
        /\ EntriesOf(subcaucuses') =
              SelectSeq(EntriesOf(subcaucuses),
                        LAMBDA entry : NotAskedFor(entry, event'.arg))
        /\ \A i \in DOMAIN subcaucuses :
              subcaucuses[i].count > 0 =>
                  subcaucuses[i].id \in IdsOf(subcaucuses')

\* after removeEmpties the snapshot is the one a recomputation of the
\* delegates gives: computing again changes nothing, and with delegates to
\* elect its participants are the members of the subcaucuses left
RevisedAfterwards ==
    event.name = "removeEmpties" =>
        /\ phase = "computed"
        /\ RedistributeDelegates(Snapshot) = Snapshot
        /\ allowed # 0 =>
              participants =
                  SumSeq([i \in DOMAIN subcaucuses |-> subcaucuses[i].count])

\* C25 (removeEmpties removes exactly the empty groups asked for): a step of
\* removeEmpties('all') leaves exactly the subcaucuses whose count is not 0,
\* a step of removeEmpties('unnamed') exactly those that have members or a
\* name; the ones left keep id, name, count and order, every subcaucus with
\* count > 0 is among them, and the snapshot is revised afterwards, the
\* delegates recomputed over the ones left.
RemovesTheEmpties == []RevisedAfterwards /\ [][KeepsTheOthers]_vars

\* C25 witness: removeEmpties('unnamed') has removed one subcaucus of two and
\* left the one that has a name and no members
RemovesTheEmptiesWitness ==
    /\ event = Handled("removeEmpties", "unnamed", "1")
    /\ Len(subcaucuses) = 1
    /\ subcaucuses[1].count = 0
    /\ subcaucuses[1].name = "A"

\* the stored count of the subcaucus with this id in a list
StoredCount(subs, id) ==
    LET at == CHOOSE i \in DOMAIN subs : subs[i].id = id
    IN  subs[at].count

\* no number a user has entered is negative where the snapshot takes it from
NoNegativeInput ==
    /\ allowed >= 0
    /\ \A i \in DOMAIN subcaucuses : subcaucuses[i].count >= 0
    /\ typed.count >= 0
    /\ NumberOf(value) >= 0

\* a step of handleCountBlur sends 'recalc' exactly when the count entered
\* differs from the stored one, and then the entered count is the stored one
BlurRecalculates ==
    event'.name = "handleCountBlur" =>
        /\ event'.outcome = "recalc" <=>
              typed.count # StoredCount(subcaucuses, typed.row)
        /\ StoredCount(subcaucuses', typed.row) = typed.count
        /\ event'.outcome = "recalc" => phase' = "computed"
        /\ event'.outcome # "recalc" => UNCHANGED snapshotVars

\* C26 (inputs are clamped to non-negative before reaching the engine):
\* whatever is typed into the count of a row, into the card of the number of
\* delegates or into an input handled by App.handleChange, no count and no
\* number of delegates in the snapshot is negative, nor is the count a row
\* holds before its blur; and the blur of a row sends 'recalc' exactly when
\* the count entered differs from the subcaucus's stored count.
InputsClamped == []NoNegativeInput /\ [][BlurRecalculates]_vars

\* C26 witness: "-1" was typed into the count of a subcaucus whose count is
\* 1, the row holds 0 and its blur is still to come
InputsClampedWitness ==
    /\ event = Handled("handleCount", "-1", "")
    /\ typed.count = 0
    /\ StoredCount(subcaucuses, typed.row) = 1
    /\ allowed = 1

====
